---------------------------- MODULE Spec2Model ----------------------------
(***************************************************************************)
(* Model of the communication-coach rubric scoring engine                  *)
(* (src/backend/scoring.py, src/backend/nlp_utils.py, src/config.py), of   *)
(* its callers (src/backend/main.py, src/app_deploy.py,                    *)
(* src/frontend/ui.py) and of the polling loop of src/backend/audio.py.    *)
(*                                                                         *)
(* Python floats are modelled as exact rationals <<n, d>> (d > 0, lowest   *)
(* terms); the one place where IEEE rounding changes a result the model    *)
(* reads (normalize_total) carries the rounding explicitly.  An operation  *)
(* that can raise returns [ok |-> FALSE, exc |-> ...] instead of a value.  *)
(***************************************************************************)
EXTENDS Integers, Sequences, FiniteSets, TLC

VARIABLES
    phase,      \* "idle" | "called" | "polling" | "done": position of the current call
    req,        \* arguments of the current call ([op |-> "idle"] when none)
    env,        \* what the external analyzers do during the current call
    res,        \* outcome of the current call ([kind |-> "none"] before it ran)
    globals,    \* the module-level objects of scoring.py: MAX_SCORES, RUBRIC_CONFIG
    last,       \* arguments, analyzer behaviour and outcome of the previous call
    session,    \* st.session_state of the batch driver
    assets      \* the temporary files in ASSETS_DIR of the backend

vars == <<phase, req, env, res, globals, last, session, assets>>

---------------------------------------------------------------------------
(* Bounds of the model                                                     *)

MaxSegs == 2          \* longest segment list
MaxErrs == 2          \* longest list of findings handed to the mapper
MaxOffset == 10       \* largest finding offset handed to the mapper

---------------------------------------------------------------------------
(* Numbers: Python int/float arithmetic over exact rationals               *)

Abs(n) == IF n < 0 THEN -n ELSE n

RECURSIVE Gcd(_, _)
Gcd(a, b) == IF b = 0 THEN a ELSE Gcd(b, a % b)

\* the rational n/d in lowest terms with a positive denominator (d # 0)
Rat(n, d) ==
    LET s == IF d < 0 THEN -1 ELSE 1
        g == Gcd(Abs(n), Abs(d))
    IN  <<(s * n) \div g, (s * d) \div g>>

R(n) == <<n, 1>>

RAdd(a, b) == Rat(a[1] * b[2] + b[1] * a[2], a[2] * b[2])
RSub(a, b) == Rat(a[1] * b[2] - b[1] * a[2], a[2] * b[2])
RMul(a, b) == Rat(a[1] * b[1], a[2] * b[2])
RLt(a, b) == a[1] * b[2] < b[1] * a[2]
RLe(a, b) == a[1] * b[2] <= b[1] * a[2]
RMin(a, b) == IF RLt(b, a) THEN b ELSE a
RMax(a, b) == IF RLt(a, b) THEN b ELSE a
IsInt(a) == a[2] = 1

\* int(x): truncation toward zero
RTrunc(a) == IF a[1] >= 0 THEN a[1] \div a[2] ELSE -((-a[1]) \div a[2])

\* round(x): nearest integer, ties to the even neighbour
RRound(a) ==
    LET f == a[1] \div a[2]                  \* floor
        twice == 2 * (a[1] - f * a[2])       \* 2 * fractional part * d
    IN  IF twice < a[2] THEN f
        ELSE IF twice > a[2] THEN f + 1
        ELSE IF f % 2 = 0 THEN f ELSE f + 1

Ok(v) == [ok |-> TRUE, v |-> v]
Raise(e) == [ok |-> FALSE, exc |-> e]

\* a / b on Python numbers: ZeroDivisionError when b is zero
TrueDiv(a, b) ==
    IF b[1] = 0 THEN Raise("ZeroDivisionError")
    ELSE Ok(Rat(a[1] * b[2], a[2] * b[1]))

---------------------------------------------------------------------------
(* Strings                                                                 *)

\* s[i:j] of Python for 0 <= i <= j <= len(s)
Slice(s, i, j) == SubSeq(s, i + 1, j)

\* p in s
Contains(s, p) ==
    \E i \in 0..(Len(s) - Len(p)) : Slice(s, i, i + Len(p)) = p

\* s.count(p) for non-empty p: non-overlapping occurrences, left to right
RECURSIVE CountFrom(_, _, _)
CountFrom(s, p, i) ==
    IF i + Len(p) > Len(s) THEN 0
    ELSE IF Slice(s, i, i + Len(p)) = p THEN 1 + CountFrom(s, p, i + Len(p))
    ELSE CountFrom(s, p, i + 1)

Count(s, p) == CountFrom(s, p, 0)

UpperChars == <<"A", "B", "C", "D", "E", "F", "G", "H", "I", "J", "K", "L", "M",
                "N", "O", "P", "Q", "R", "S", "T", "U", "V", "W", "X", "Y", "Z">>
LowerChars == <<"a", "b", "c", "d", "e", "f", "g", "h", "i", "j", "k", "l", "m",
                "n", "o", "p", "q", "r", "s", "t", "u", "v", "w", "x", "y", "z">>

UpperSet == {UpperChars[k] : k \in 1..26}
LowerSet == {LowerChars[k] : k \in 1..26}
LowerOf == [c \in UpperSet |-> LowerChars[CHOOSE k \in 1..26 : UpperChars[k] = c]]

LowerChar(c) == IF c \in UpperSet THEN LowerOf[c] ELSE c

\* s.lower()
RECURSIVE LowerFrom(_, _)
LowerFrom(s, i) ==
    IF i >= Len(s) THEN ""
    ELSE LowerChar(Slice(s, i, i + 1)) \o LowerFrom(s, i + 1)

Lower(s) == LowerFrom(s, 0)

IsSpace(c) == c \in {" ", "\t", "\n"}

\* len(s.split()): the number of maximal runs of non-whitespace characters
SplitLen(s) ==
    Cardinality({i \in 0..(Len(s) - 1) :
        /\ ~IsSpace(Slice(s, i, i + 1))
        /\ (i = 0 \/ IsSpace(Slice(s, i - 1, i)))})

---------------------------------------------------------------------------
(* Sequences                                                               *)

\* all sequences over S of length at most n
SeqsUpTo(S, n) == UNION {[1..k -> S] : k \in 0..n}

RECURSIVE Concat(_)
Concat(ss) == IF ss = <<>> THEN <<>> ELSE Head(ss) \o Concat(Tail(ss))

RECURSIVE Sum(_)
Sum(s) == IF s = <<>> THEN 0 ELSE Head(s) + Sum(Tail(s))

---------------------------------------------------------------------------
(* SegmentTimeMapper: scoring.map_errors_to_segments                       *)

SLACK == 5

\* the cumulative character-range table built by the first loop
segment_map(segments) ==
    [i \in 1..Len(segments) |->
        LET current_char_index ==
                Sum([j \in 1..(i - 1) |-> Len(segments[j].text)])
            text_len == Len(segments[i].text)
        IN  [start_char |-> current_char_index,
             end_char   |-> current_char_index + text_len,
             start_time |-> segments[i].start,
             end_time   |-> segments[i].end,
             text       |-> segments[i].text]]

\* the range test of the inner loop
in_range(seg, err_start) ==
    seg.start_char <= err_start /\ err_start <= seg.end_char + SLACK

\* the ratio without the cap at 1.0
ratio_unclamped(local_offset, seg_span) ==
    IF seg_span > 0 THEN TrueDiv(R(local_offset), R(seg_span)) ELSE Ok(R(0))

\* ratio of the position inside the matched segment
ratio_unguarded(local_offset, seg_span) ==
    LET q == TrueDiv(R(local_offset), R(seg_span))
    IN  IF q.ok THEN Ok(RMin(R(1), q.v)) ELSE q

ratio(local_offset, seg_span) ==
    IF seg_span > 0
    THEN LET q == TrueDiv(R(local_offset), R(seg_span))
         IN  IF q.ok THEN Ok(RMin(R(1), q.v)) ELSE q
    ELSE Ok(R(0))

\* body of the inner loop for the matched segment: the event, or the exception
grammar_event(err, seg) ==
    LET local_offset == IF err.offset - seg.start_char > 0
                        THEN err.offset - seg.start_char ELSE 0
        seg_span == seg.end_char - seg.start_char
        r == ratio(local_offset, seg_span)
    IN  IF ~r.ok THEN r
        ELSE Ok([time |-> RAdd(seg.start_time,
                               RMul(r.v, RSub(seg.end_time, seg.start_time))),
                 type |-> "grammar",
                 label |-> "Grammar",
                 msg |-> err.msg,
                 segment_text |-> seg.text])

\* index of the segment the inner loop stops at (first in list order), 0 if none
first_match(smap, err_start) ==
    IF \E i \in 1..Len(smap) : in_range(smap[i], err_start)
    THEN CHOOSE i \in 1..Len(smap) :
            /\ in_range(smap[i], err_start)
            /\ \A j \in 1..(i - 1) : ~in_range(smap[j], err_start)
    ELSE 0

\* the second loop, from finding k on, appending to mapped_events
RECURSIVE map_from(_, _, _, _)
map_from(errors, smap, k, mapped_events) ==
    IF k > Len(errors) THEN Ok(mapped_events)
    ELSE LET m == first_match(smap, errors[k].offset)
         IN  IF m = 0 THEN map_from(errors, smap, k + 1, mapped_events)
             ELSE LET e == grammar_event(errors[k], smap[m])
                  IN  IF ~e.ok THEN e
                      ELSE map_from(errors, smap, k + 1, Append(mapped_events, e.v))

\* a mapper that anchors the findings at time 0 when there is no segment
map_errors_anchored(errors, segments) ==
    IF segments = <<>>
    THEN Ok([k \in 1..Len(errors) |->
                [time |-> R(0), type |-> "grammar", label |-> "Grammar",
                 msg |-> errors[k].msg, segment_text |-> ""]])
    ELSE map_from(errors, segment_map(segments), 1, <<>>)

map_errors_to_segments(errors, segments) ==
    map_from(errors, segment_map(segments), 1, <<>>)

---------------------------------------------------------------------------
(* Configuration: src/config.py and the rubric weights of scoring.py       *)

Categories == {"content_structure", "grammar", "clarity", "confidence", "flow"}

\* dict order of the scores: the order in which calculate_score fills it
CategoryOrder == <<"content_structure", "flow", "grammar", "clarity", "confidence">>

MAX_SCORES ==
    [content_structure |-> 40, grammar |-> 20, clarity |-> 15,
     confidence |-> 15, flow |-> 10]

\* the parts of RUBRIC_CONFIG the scorer reads
RUBRIC_CONFIG ==
    [speech_rate |->
        [ideal_min |-> 111, ideal_max |-> 140, fast_min |-> 141, fast_max |-> 160,
         slow_min |-> 81, slow_max |-> 110],
     clarity |->
        [filler_words |-> <<"um", "uh", "like", "actually", "basically",
                            "right", "mean", "okay", "hmm", "ah">>,
         filler_phrases |-> <<"you know", "sort of", "kind of", "i mean">>]]

\* the module-level objects as they are after import
InitialGlobals == [MAX_SCORES |-> MAX_SCORES, RUBRIC_CONFIG |-> RUBRIC_CONFIG]

MandatoryBuckets == <<"Mandatory_Identity", "Mandatory_Family", "Mandatory_Hobbies">>

---------------------------------------------------------------------------
(* Character classes and the regular-expression primitives of the rule tier *)

CharAt(s, i) == Slice(s, i, i + 1)

IsUpper(c) == c \in UpperSet
IsLower(c) == c \in LowerSet
IsDigit(c) == c \in {"0", "1", "2", "3", "4", "5", "6", "7", "8", "9"}
IsWord(c) == IsUpper(c) \/ IsLower(c) \/ IsDigit(c) \/ c = "_"

\* is there a word character at index i (no character outside the string)
WordAt(s, i) == i >= 0 /\ i < Len(s) /\ IsWord(CharAt(s, i))

\* \b at index i
Boundary(s, i) == WordAt(s, i - 1) # WordAt(s, i)

\* the literal p at index i.  A pattern compiled with re.IGNORECASE matches
\* ASCII text exactly where its lower-cased literals match the lower-cased
\* text, so those scans run StartsAt on Lower(text)
StartsAt(s, i, p) == i + Len(p) <= Len(s) /\ Slice(s, i, i + Len(p)) = p

\* end of the greedy run \s* / [a-z]* starting at index i
RECURSIVE SpaceRunEnd(_, _)
SpaceRunEnd(s, i) ==
    IF i < Len(s) /\ IsSpace(CharAt(s, i)) THEN SpaceRunEnd(s, i + 1) ELSE i

RECURSIVE LowerRunEnd(_, _)
LowerRunEnd(s, i) ==
    IF i < Len(s) /\ IsLower(CharAt(s, i)) THEN LowerRunEnd(s, i + 1) ELSE i

Max(a, b) == IF a > b THEN a ELSE b
Min(a, b) == IF a < b THEN a ELSE b

\* text[max(0, start-10):min(len(text), end+10)]
context_of(text, start, end) ==
    Slice(text, Max(0, start - 10), Min(Len(text), end + 10))

\* the indices 0..len-1 at which P holds, ascending: re.finditer for a pattern
\* none of whose matches can begin inside another (true of all five patterns)
Positions(text, P(_)) ==
    SelectSeq([k \in 1..Len(text) |-> k - 1], P)

---------------------------------------------------------------------------
(* nlp_utils.analyze_grammar: rule tier                                    *)

\* \b(myself|Myself)\s+[A-Z][a-z]+ : end of the match at i, or -1
myself_end(text, i) ==
    IF Boundary(text, i) /\ (StartsAt(text, i, "myself") \/ StartsAt(text, i, "Myself"))
    THEN LET j == i + 6
             k == SpaceRunEnd(text, j)
         IN  IF /\ k > j
                /\ k < Len(text) /\ IsUpper(CharAt(text, k))
                /\ k + 1 < Len(text) /\ IsLower(CharAt(text, k + 1))
             THEN LowerRunEnd(text, k + 1)
             ELSE -1
    ELSE -1

plural_nouns == <<"cousin", "friend", "brother", "sister", "parent", "student", "teacher">>

\* one of my (cousin|...)(?!\w|s), IGNORECASE, on lt = Lower(text): index of
\* the noun matched at i, or 0
plural_ok(lt, i, n) ==
    /\ StartsAt(lt, i + 10, plural_nouns[n])
    /\ ~WordAt(lt, i + 10 + Len(plural_nouns[n]))

plural_noun(lt, i) ==
    IF StartsAt(lt, i, "one of my ") /\ \E n \in 1..Len(plural_nouns) : plural_ok(lt, i, n)
    THEN CHOOSE n \in 1..Len(plural_nouns) : plural_ok(lt, i, n)
    ELSE 0

sva_subjects == <<"i", "you", "we", "they">>

\* \b(I|You|We|They)\s+is\b, IGNORECASE, on lt = Lower(text): index of the
\* subject matched at i, or 0
sva_ok(lt, i, n) ==
    LET j == i + Len(sva_subjects[n])
        k == SpaceRunEnd(lt, j)
    IN  /\ StartsAt(lt, i, sva_subjects[n])
        /\ k > j
        /\ StartsAt(lt, k, "is")
        /\ Boundary(lt, k + 2)

sva_subject(lt, i) ==
    IF Boundary(lt, i) /\ \E n \in 1..Len(sva_subjects) : sva_ok(lt, i, n)
    THEN CHOOSE n \in 1..Len(sva_subjects) : sva_ok(lt, i, n)
    ELSE 0

sva_end(lt, i) ==
    SpaceRunEnd(lt, i + Len(sva_subjects[sva_subject(lt, i)])) + 2

redundant_patterns ==
    <<[pat |-> "return back", msg |-> "Redundant. Just say 'return'."],
      [pat |-> "discuss about", msg |-> "Redundant. Just say 'discuss'."]>>

myself_findings(text) ==
    LET hit(i) == myself_end(text, i) >= 0
        pos == Positions(text, hit)
    IN  [k \in 1..Len(pos) |->
            LET end == myself_end(text, pos[k])
            IN  [msg |-> "Incorrect usage of 'Myself'. Use 'My name is' or 'I am'.",
                 replacements |-> <<"My name is ...">>,
                 offset |-> pos[k],
                 length |-> end - pos[k],
                 context |-> context_of(text, pos[k], end),
                 category |-> "Custom Rule"]]

plural_findings(text, lt) ==
    LET hit(i) == plural_noun(lt, i) > 0
        pos == Positions(text, hit)
    IN  [k \in 1..Len(pos) |->
            LET end == pos[k] + 10 + Len(plural_nouns[plural_noun(lt, pos[k])])
                group1 == Slice(text, pos[k] + 10, end)
            IN  [msg |-> "Plural missing. Say 'one of my " \o group1 \o "s'.",
                 replacements |-> <<"one of my " \o group1 \o "s">>,
                 offset |-> pos[k],
                 length |-> end - pos[k],
                 context |-> context_of(text, pos[k], end),
                 category |-> "Grammar"]]

sva_findings(text, lt) ==
    LET hit(i) == sva_subject(lt, i) > 0
        pos == Positions(text, hit)
    IN  [k \in 1..Len(pos) |->
            LET n == sva_subject(lt, pos[k])
                group1 == Slice(text, pos[k], pos[k] + Len(sva_subjects[n]))
                end == sva_end(lt, pos[k])
            IN  [msg |-> "Subject-verb disagreement. '" \o group1
                            \o "' does not take 'is'.",
                 replacements |-> IF Lower(group1) = "i" THEN <<"am">> ELSE <<"are">>,
                 offset |-> pos[k],
                 length |-> end - pos[k],
                 context |-> context_of(text, pos[k], end),
                 category |-> "Grammar"]]

redundant_findings(text, lt, r) ==
    LET hit(i) == StartsAt(lt, i, r.pat)
        pos == Positions(text, hit)
    IN  [k \in 1..Len(pos) |->
            [msg |-> r.msg,
             replacements |-> <<>>,
             offset |-> pos[k],
             length |-> Len(r.pat),
             context |-> Slice(text, pos[k], pos[k] + Len(r.pat)),
             category |-> "Redundancy"]]

\* the findings of the four regex scans, in the order the scans run
rule_findings(text) ==
    LET lt == Lower(text)
    IN  myself_findings(text) \o plural_findings(text, lt) \o sva_findings(text, lt)
            \o redundant_findings(text, lt, redundant_patterns[1])
            \o redundant_findings(text, lt, redundant_patterns[2])

---------------------------------------------------------------------------
(* nlp_utils: the analyzers.  e is what the external models do in this call: *)
(*   e.grammar_tool    "none" (LanguageTool failed to initialise at import), *)
(*                     "ok", or "raise" (its check call raises)              *)
(*   e.matches         the matches LanguageTool reports                     *)
(*   e.embed_raise     0, or the number (1, 2) of the check_semantic_presence *)
(*                     call in which the embedder raises                    *)
(*   e.max_similarity  per bucket, the largest cosine similarity            *)
(*   e.sentiment_raise whether VADER raises;  e.compound  its compound score *)

\* every replacement kept
first_two_uncapped(xs) == xs

\* m.replacements[:2]
first_two(xs) == SubSeq(xs, 1, Min(2, Len(xs)))

\* the LanguageTool tier without the test for a missing tool and without the
\* handler around the check
checker_findings_unguarded(e) ==
    [k \in 1..Len(e.matches) |->
        [msg |-> e.matches[k].message,
         replacements |-> first_two(e.matches[k].replacements),
         offset |-> e.matches[k].offset,
         length |-> e.matches[k].errorLength,
         context |-> e.matches[k].context,
         category |-> e.matches[k].category]]

\* the LanguageTool tier: its findings, <<>> when the tool is missing or raises
checker_findings(e) ==
    IF e.grammar_tool = "ok"
    THEN [k \in 1..Len(e.matches) |->
            [msg |-> e.matches[k].message,
             replacements |-> first_two(e.matches[k].replacements),
             offset |-> e.matches[k].offset,
             length |-> e.matches[k].errorLength,
             context |-> e.matches[k].context,
             category |-> e.matches[k].category]]
    ELSE <<>>

analyze_grammar(text, e) ==
    LET significant_errors == rule_findings(text) \o checker_findings(e)
    IN  [count |-> Len(significant_errors), errors |-> significant_errors]

\* (compound + 1) / 2
analyze_sentiment(text, e) ==
    IF e.sentiment_raise THEN Raise("SentimentError")
    ELSE Ok(RMul(RAdd(e.compound, R(1)), Rat(1, 2)))

SEMANTIC_THRESHOLD == Rat(45, 100)

\* doc.sents of the empty string is empty; any other text has a sentence
has_sentences(transcript_text) == transcript_text # ""

\* criteria: the bucket names, in dict order; call_no: 1 mandatory, 2 optional
check_semantic_presence(transcript_text, criteria, e, call_no) ==
    IF ~has_sentences(transcript_text)
    THEN Ok([i \in 1..Len(criteria) |-> FALSE])
    ELSE IF e.embed_raise = call_no THEN Raise("EmbedderError")
    ELSE Ok([i \in 1..Len(criteria) |->
                RLt(SEMANTIC_THRESHOLD, e.max_similarity[criteria[i]])])

---------------------------------------------------------------------------
(* scoring.normalize_total                                                 *)

\* the integers x in 0..100 for which the IEEE double (x / 100) * 100 is the
\* double just below x (56.99999999999999 for 57) instead of x
FloatLoss == {29, 57, 58}

\* (raw_sum / max_possible) * 100 as the double the code computes, up to int()
normalized_of(raw_sum, max_possible) ==
    LET q == TrueDiv(raw_sum, R(max_possible))
        exact == RMul(q.v, R(100))
    IN  IF max_possible = 100 /\ IsInt(raw_sum) /\ raw_sum[1] \in FloatLoss
        THEN RSub(exact, Rat(1, 1000))
        ELSE exact

normalize_total(scores, max_scores) ==
    LET raw_sum == RAdd(scores.content_structure,
                    R(scores.flow + scores.grammar + scores.clarity + scores.confidence))
        max_possible == max_scores.content_structure + max_scores.grammar
                          + max_scores.clarity + max_scores.confidence + max_scores.flow
    IN  IF max_possible = 0 THEN 0
        ELSE RTrunc(RMin(normalized_of(raw_sum, max_possible), R(100)))

---------------------------------------------------------------------------
(* scoring.calculate_score: the category scores                            *)

\* word_count == 0
is_degenerate_never(word_count) == FALSE

is_degenerate(word_count) == word_count = 0

\* the report of the degenerate case (content_structure, a float in every
\* other report, is kept a rational here too)
degenerate_report(text) ==
    [overall_score |-> 0,
     breakdown |-> [content_structure |-> R(0), grammar |-> 0, clarity |-> 0,
                    confidence |-> 0, flow |-> 0],
     feedback |-> [general |-> "No speech detected."],
     segments |-> <<>>,
     events |-> <<>>,
     text |-> text,
     details |-> [wpm |-> 0, duration |-> R(0), errors |-> <<>>]]

salutation_score(text) ==
    LET lower_text == Lower(text)
    IN  IF \E x \in {"good morning", "good afternoon", "hello everyone", "excited to"} :
                Contains(lower_text, x)
        THEN 5
        ELSE IF Contains(lower_text, "hi") \/ Contains(lower_text, "hello")
        THEN 2
        ELSE 0

\* sum(semantic_results.values())
count_true(results) == Cardinality({i \in 1..Len(results) : results[i]})

\* (buckets_found / len(semantic_buckets)) * 20
mandatory_score(buckets_found) ==
    RMul(Rat(buckets_found, Len(MandatoryBuckets)), R(20))

\* an optional bonus of half the weight
optional_score_half(opt_found) == IF opt_found THEN 5 ELSE 0

optional_score(opt_found) == IF opt_found THEN 10 ELSE 0

\* a structural-flow bonus that asks for the salutation only
flow_score_salutation_only(salutation, buckets_found) ==
    IF salutation > 0 THEN 5 ELSE 0

flow_score(salutation, buckets_found) ==
    IF salutation > 0 /\ buckets_found >= 2 THEN 5 ELSE 0

content_structure_score(salutation, buckets_found, opt_found) ==
    RAdd(R(salutation + optional_score(opt_found)
            + flow_score(salutation, buckets_found)),
         mandatory_score(buckets_found))

\* the pace bands with the fast and slow bands one step wider
pace_score_wide(wpm, rate_cfg) ==
    IF rate_cfg.ideal_min <= wpm /\ wpm <= rate_cfg.ideal_max THEN 10
    ELSE IF \/ (rate_cfg.fast_min <= wpm /\ wpm <= rate_cfg.fast_max + 1)
            \/ (rate_cfg.slow_min - 1 <= wpm /\ wpm <= rate_cfg.slow_max)
    THEN 6
    ELSE 2

\* scores["flow"], rate_cfg = RUBRIC_CONFIG["speech_rate"]
pace_score(wpm, rate_cfg) ==
    IF rate_cfg.ideal_min <= wpm /\ wpm <= rate_cfg.ideal_max THEN 10
    ELSE IF \/ (rate_cfg.fast_min <= wpm /\ wpm <= rate_cfg.fast_max)
            \/ (rate_cfg.slow_min <= wpm /\ wpm <= rate_cfg.slow_max)
    THEN 6
    ELSE 2

\* (count / word_count) * 100, or ZeroDivisionError
per_100(count, word_count) ==
    LET q == TrueDiv(R(count), R(word_count))
    IN  IF q.ok THEN Ok(RMul(q.v, R(100))) ELSE q

\* the grammar bands with the two tests in the wrong order
grammar_band_misordered(errors_per_100) ==
    IF RLt(errors_per_100, R(5)) THEN 15
    ELSE IF RLt(errors_per_100, R(2)) THEN 20
    ELSE 10

\* scores["grammar"] from errors_per_100
grammar_band(errors_per_100) ==
    IF RLt(errors_per_100, R(2)) THEN 20
    ELSE IF RLt(errors_per_100, R(5)) THEN 15
    ELSE 10

\* the clarity bands with the limits inside the better band
clarity_band_inclusive(filler_rate) ==
    IF RLe(filler_rate, R(3)) THEN 15
    ELSE IF RLe(filler_rate, R(6)) THEN 12
    ELSE IF RLe(filler_rate, R(10)) THEN 9
    ELSE 3

\* scores["clarity"] from filler_rate
clarity_band(filler_rate) ==
    IF RLt(filler_rate, R(3)) THEN 15
    ELSE IF RLt(filler_rate, R(6)) THEN 12
    ELSE IF RLt(filler_rate, R(10)) THEN 9
    ELSE 3

\* the confidence bands with the limits inside the better band
confidence_band_inclusive(positivity) ==
    IF RLe(Rat(9, 10), positivity) THEN 15
    ELSE IF RLe(Rat(7, 10), positivity) THEN 12
    ELSE IF RLe(Rat(5, 10), positivity) THEN 9
    ELSE 6

\* scores["confidence"] from positivity
confidence_band(positivity) ==
    IF RLt(Rat(9, 10), positivity) THEN 15
    ELSE IF RLt(Rat(7, 10), positivity) THEN 12
    ELSE IF RLt(Rat(5, 10), positivity) THEN 9
    ELSE 6

---------------------------------------------------------------------------
(* scoring.calculate_score: the segment-based filler scan                  *)

\* the fillers of one list found in one segment, in list order: for each, its
\* count in the padded lower-cased text and the one event appended for it
fillers_in(seg, fillers, what) ==
    LET seg_text_lower == " " \o Lower(seg.text) \o " "
        hit(k) == Contains(seg_text_lower, " " \o fillers[k] \o " ")
        found == SelectSeq([k \in 1..Len(fillers) |-> k], hit)
    IN  [k \in 1..Len(found) |->
            [count_in_seg |-> Count(seg_text_lower, " " \o fillers[found[k]] \o " "),
             event |-> [time |-> seg.start,
                        type |-> "clarity",
                        label |-> "Clarity",
                        msg |-> what \o "'" \o fillers[found[k]] \o "'",
                        segment_text |-> seg.text]]]

\* the whole loop over the segments: single words, then phrases, per segment
filler_hits(segments, fillers_list, phrases_list) ==
    Concat([i \in 1..Len(segments) |->
        fillers_in(segments[i], fillers_list, "Filler detected: ")
            \o fillers_in(segments[i], phrases_list, "Filler phrase: ")])

filler_count_of(hits) == Sum([k \in 1..Len(hits) |-> hits[k].count_in_seg])
filler_events_of(hits) == [k \in 1..Len(hits) |-> hits[k].event]

---------------------------------------------------------------------------
(* scoring.calculate_score: the feedback events                            *)

\* s.replace(old, new) for non-empty old
RECURSIVE ReplaceFrom(_, _, _, _)
ReplaceFrom(s, old, new, i) ==
    IF i >= Len(s) THEN ""
    ELSE IF StartsAt(s, i, old) THEN new \o ReplaceFrom(s, old, new, i + Len(old))
    ELSE CharAt(s, i) \o ReplaceFrom(s, old, new, i + 1)

Replace(s, old, new) == ReplaceFrom(s, old, new, 0)

\* str(n) for n >= 0
Digits == <<"0", "1", "2", "3", "4", "5", "6", "7", "8", "9">>

RECURSIVE IntStr(_)
IntStr(n) ==
    IF n < 10 THEN Digits[n + 1] ELSE IntStr(n \div 10) \o Digits[(n % 10) + 1]

\* the events for the mandatory buckets not found, in dict order
missing_content_events(mandatory, semantic_results) ==
    IF RLt(mandatory, R(20))
    THEN LET missing(i) == ~semantic_results[i]
             idx == SelectSeq([i \in 1..Len(MandatoryBuckets) |-> i], missing)
         IN  [k \in 1..Len(idx) |->
                [time |-> Rat(1, 2),
                 type |-> "content",
                 label |-> "Missing Content",
                 msg |-> "You didn't mention your "
                            \o Replace(MandatoryBuckets[idx[k]], "Mandatory_", "")
                            \o ".",
                 segment_text |-> "Structure Check"]]
    ELSE <<>>

\* a suggestion appended whatever the optional score is
suggestion_events_always(optional) ==
    <<[time |-> R(1),
       type |-> "content",
       label |-> "Suggestion",
       msg |-> "Try adding a Fun Fact or Ambition.",
       segment_text |-> "Content Tip"]>>

suggestion_events(optional) ==
    IF optional = 0
    THEN <<[time |-> R(1),
            type |-> "content",
            label |-> "Suggestion",
            msg |-> "Try adding a Fun Fact or Ambition.",
            segment_text |-> "Content Tip"]>>
    ELSE <<>>

\* a pace event anchored at the end of the recording itself
pace_events_at_end(flow, wpm, duration) ==
    IF flow < 10
    THEN <<[time |-> duration,
            type |-> "flow",
            label |-> "Pace",
            msg |-> (IF wpm > 140 THEN "Speaking too fast!" ELSE "Speaking a bit slow.")
                        \o " (" \o IntStr(wpm) \o " WPM).",
            segment_text |-> "Flow Analysis"]>>
    ELSE <<>>

pace_events(flow, wpm, duration) ==
    IF flow < 10
    THEN <<[time |-> RSub(duration, R(1)),
            type |-> "flow",
            label |-> "Pace",
            msg |-> (IF wpm > 140 THEN "Speaking too fast!" ELSE "Speaking a bit slow.")
                        \o " (" \o IntStr(wpm) \o " WPM).",
            segment_text |-> "Flow Analysis"]>>
    ELSE <<>>

tone_events(confidence, duration) ==
    IF confidence < 12
    THEN <<[time |-> RSub(duration, Rat(1, 2)),
            type |-> "confidence",
            label |-> "Tone",
            msg |-> "Tone sounded flat. Be more enthusiastic!",
            segment_text |-> "Confidence Analysis"]>>
    ELSE <<>>

\* list.sort(key=time): a stable sort; insert e behind every element not after it
RECURSIVE insert_by_time(_, _)
insert_by_time(sorted, e) ==
    IF sorted = <<>> THEN <<e>>
    ELSE IF RLt(e.time, Head(sorted).time) THEN <<e>> \o sorted
    ELSE <<Head(sorted)>> \o insert_by_time(Tail(sorted), e)

RECURSIVE sort_from(_, _, _)
sort_from(events, k, sorted) ==
    IF k > Len(events) THEN sorted
    ELSE sort_from(events, k + 1, insert_by_time(sorted, events[k]))

sort_events_unsorted(all_events) == all_events

sort_events(all_events) == sort_from(all_events, 1, <<>>)

---------------------------------------------------------------------------
(* scoring.calculate_score                                                 *)

\* outcome of a call: the value returned or the exception raised, with what
\* the call did on the way: the analyzer calls it made, and the events it
\* appended to all_events, in the order it appended them
Returned(v, invoked, generated) ==
    [ok |-> TRUE, v |-> v, invoked |-> invoked, generated |-> generated]
Raised(exc, invoked) == [ok |-> FALSE, exc |-> exc, invoked |-> invoked]

\* everything from the filler scan to the return (lines 125-236)
score_tail(a, e, g, sem, opt, grammar, invoked) ==
    LET salutation == salutation_score(a.text)
        buckets_found == count_true(sem)
        mandatory == mandatory_score(buckets_found)
        optional == optional_score(opt[1])
        hits == filler_hits(a.segments,
                            g.RUBRIC_CONFIG.clarity.filler_words,
                            g.RUBRIC_CONFIG.clarity.filler_phrases)
        filler_rate == per_100(filler_count_of(hits), a.word_count)
        positivity == analyze_sentiment(a.text, e)
        called == Append(invoked, "analyze_sentiment")
    IN  IF ~filler_rate.ok THEN Raised(filler_rate.exc, invoked)
        ELSE IF ~positivity.ok THEN Raised(positivity.exc, called)
        ELSE
        LET scores == [content_structure |->
                            content_structure_score(salutation, buckets_found, opt[1]),
                       flow |-> pace_score(a.wpm, g.RUBRIC_CONFIG.speech_rate),
                       grammar |-> grammar.score,
                       clarity |-> clarity_band(filler_rate.v),
                       confidence |-> confidence_band(positivity.v)]
            grammar_events == map_errors_to_segments(grammar.errors, a.segments)
        IN  IF ~grammar_events.ok THEN Raised(grammar_events.exc, called)
            ELSE
            LET all_events ==
                    grammar_events.v \o filler_events_of(hits)
                        \o missing_content_events(mandatory, sem)
                        \o suggestion_events(optional)
                        \o pace_events(scores.flow, a.wpm, a.duration)
                        \o tone_events(scores.confidence, a.duration)
            IN  Returned(
                    [overall_score |-> normalize_total(scores, g.MAX_SCORES),
                     breakdown |-> scores,
                     feedback |-> [flow |-> a.wpm, grammar |-> grammar.count,
                                   clarity |-> filler_rate.v,
                                   confidence |-> positivity.v],
                     details |-> [wpm |-> a.wpm, duration |-> a.duration,
                                  errors |-> SubSeq(grammar.errors, 1,
                                                    Min(5, Len(grammar.errors)))],
                     segments |-> a.segments,
                     events |-> sort_events(all_events),
                     text |-> a.text],
                    called, all_events)

\* a: the argument dict; e: the analyzers' behaviour; g: the module globals
calculate_score(a, e, g) ==
    IF is_degenerate(a.word_count)
    THEN Returned(degenerate_report(a.text), <<>>, <<>>)
    ELSE
    LET sem == check_semantic_presence(a.text, MandatoryBuckets, e, 1)
        inv1 == <<"check_semantic_presence">>
    IN  IF ~sem.ok THEN Raised(sem.exc, inv1)
        ELSE
        LET opt == check_semantic_presence(a.text, <<"Optional_Details">>, e, 2)
            inv2 == inv1 \o inv1
        IN  IF ~opt.ok THEN Raised(opt.exc, inv2)
            ELSE
            LET found == analyze_grammar(a.text, e)
                inv3 == Append(inv2, "analyze_grammar")
                errors_per_100 == per_100(found.count, a.word_count)
            IN  IF ~errors_per_100.ok THEN Raised(errors_per_100.exc, inv3)
                ELSE score_tail(a, e, g, sem.v, opt.v,
                                [count |-> found.count, errors |-> found.errors,
                                 score |-> grammar_band(errors_per_100.v)],
                                inv3)

\* what the call leaves in the module globals: it assigns to none of them and
\* mutates no object reachable from them
globals_after_extend(g) ==
    [g EXCEPT !.RUBRIC_CONFIG.clarity.filler_words =
        @ \o g.RUBRIC_CONFIG.clarity.filler_phrases]

globals_after(g) == g

---------------------------------------------------------------------------
(* The callers: what they hand to calculate_score                          *)

\* main.analyze_submission, text path (also app_deploy's text items)
text_analysis(text_input) ==
    LET word_count == SplitLen(text_input)
        estimated_minutes == Rat(word_count, 130)
        estimated_duration == RMul(estimated_minutes, R(60))
    IN  [text |-> text_input,
         segments |-> <<>>,
         duration |-> estimated_duration,
         wpm |-> 130,
         word_count |-> word_count]

\* a text item scored without an assumed speech rate
batch_text_analysis_no_rate(content) ==
    LET wc == SplitLen(content)
    IN  [text |-> content, segments |-> <<>>,
         duration |-> RMul(Rat(wc, 130), R(60)), wpm |-> 0, word_count |-> wc]

\* app_deploy.main, a text item of the queue: the analysis it makes up
batch_text_analysis(content) ==
    LET wc == SplitLen(content)
    IN  [text |-> content, segments |-> <<>>,
         duration |-> RMul(Rat(wc, 130), R(60)), wpm |-> 130, word_count |-> wc]

RECURSIVE MaxEnd(_)
MaxEnd(segments) ==
    IF Len(segments) = 1 THEN segments[1].end
    ELSE RMax(segments[1].end, MaxEnd(Tail(segments)))

\* audio._parse_provider_response from the duration fallback on, for the text,
\* the segment list and the duration field found in the provider's response
provider_analysis(text, parsed_segments, resp_duration) ==
    LET duration == IF parsed_segments # <<>> THEN MaxEnd(parsed_segments)
                    ELSE resp_duration
        segments == IF parsed_segments = <<>> /\ text # ""
                    THEN <<[start |-> R(0), end |-> duration, text |-> text]>>
                    ELSE parsed_segments
        word_count == IF text # "" THEN SplitLen(text) ELSE 0
        wpm == IF RLt(R(0), duration)
               THEN RTrunc(TrueDiv(R(word_count), TrueDiv(duration, R(60)).v).v)
               ELSE 0
    IN  [text |-> text, segments |-> segments, duration |-> duration,
         wpm |-> wpm, word_count |-> word_count]

---------------------------------------------------------------------------
(* Inputs of the model                                                     *)

Texts == {"", " ", "hi", "Good morning", "Good morning myself Raj", "um I is ok"}

Seg(s, e, t) == [start |-> s, end |-> e, text |-> t]

\* segments of a transcription, one of them with start > end
ScoreSegPool ==
    {Seg(R(0), R(2), "um"), Seg(R(2), R(5), "I am ok"), Seg(R(4), R(3), "Um like um")}

ScoreSegLists == SeqsUpTo(ScoreSegPool, MaxSegs)

\* segment lists with no, one, two and three filler occurrences
DirectSegLists ==
    {<<>>, <<Seg(R(0), R(2), "um")>>,
     <<Seg(R(0), R(2), "um"), Seg(R(2), R(5), "um")>>,
     <<Seg(R(4), R(3), "Um like um")>>}

\* what a transcription can hold: no text, or a text with or without findings
AudioTexts == {"", "Good morning myself Raj", "I am ok"}

RespDurations == {R(0), R(1), R(10)}
Durations == {R(0), Rat(3, 2), R(10)}
Wpms == {100, 130, 170}
WordCounts == {0, 1, 30}

AllBuckets ==
    {"Mandatory_Identity", "Mandatory_Family", "Mandatory_Hobbies", "Optional_Details"}

Match(off) ==
    [message |-> "Possible spelling mistake found.",
     replacements |-> <<"a", "b", "c">>,
     offset |-> off, errorLength |-> 2, context |-> "ctx", category |-> "TYPOS"]

MatchLists == {<<>>, <<Match(3)>>, <<Match(9), Match(0)>>}

DefaultSimilarity == [b \in AllBuckets |-> Rat(60, 100)]

\* the analyzers' behaviours; an embedder or sentiment failure is taken with
\* the other analyzers at one fixed behaviour
Envs ==
    {e \in [grammar_tool : {"none", "ok", "raise"},
            matches : MatchLists,
            embed_raise : {0, 1, 2},
            max_similarity : [AllBuckets -> {Rat(45, 100), Rat(60, 100)}],
            sentiment_raise : BOOLEAN,
            compound : {Rat(9, 10), Rat(8, 10), Rat(4, 10), R(0)}] :
        /\ e.grammar_tool # "ok" => e.matches = <<Match(9), Match(0)>>
        /\ (e.embed_raise # 0 \/ e.sentiment_raise) =>
                /\ e.max_similarity = DefaultSimilarity
                /\ e.compound = R(0)
                /\ e.matches = <<Match(9), Match(0)>>
                /\ ~(e.embed_raise # 0 /\ e.sentiment_raise)}

\* st.session_state after the first run of the script
InitialSession ==
    [batch_queue |-> <<>>, batch_results |-> <<>>, processing_complete |-> FALSE,
     page |-> "upload", selected_student |-> <<>>]

NoReq == [op |-> "idle"]
NoEnv == [kind |-> "none"]
NoRes == [kind |-> "none"]

---------------------------------------------------------------------------
(* The scoring service: one call of calculate_score at a time              *)

Init ==
    /\ phase = "idle"
    /\ req = NoReq
    /\ env = NoEnv
    /\ res = NoRes
    /\ globals = InitialGlobals
    /\ last = NoRes
    /\ session = InitialSession
    /\ assets = {}

Call(op, caller, a) ==
    /\ phase' = "called"
    /\ req' = [op |-> op, caller |-> caller, a |-> a]
    /\ UNCHANGED <<env, res, globals, last, session, assets>>

\* a text item of app_deploy's queue; an uploaded .txt file may be empty
CallBatchText ==
    /\ phase = "idle"
    /\ \E content \in Texts :
        Call("calculate_score", "batch", batch_text_analysis(content))

\* /analyze with text_input only
CallText ==
    /\ phase = "idle"
    /\ \E text_input \in Texts \ {""} :
        Call("calculate_score", "text", text_analysis(text_input))

\* /analyze with an uploaded file, or an audio item of the batch queue
CallAudio ==
    /\ phase = "idle"
    /\ \E text \in AudioTexts, segments \in ScoreSegLists, resp_duration \in RespDurations :
        /\ segments # <<>> => resp_duration = R(0)
        /\ Call("calculate_score", "audio",
                provider_analysis(text, segments, resp_duration))

\* any other caller
CallDirect ==
    /\ phase = "idle"
    /\ \E text \in {"hi"}, segments \in DirectSegLists,
       wpm \in Wpms, duration \in Durations, word_count \in WordCounts :
        Call("calculate_score", "direct",
             [text |-> text, segments |-> segments, duration |-> duration,
              wpm |-> wpm, word_count |-> word_count])

\* the call runs to its return or to the exception it raises, the analyzers
\* behaving in one of the ways of behaviours
RunWith(behaviours) ==
    /\ phase = "called"
    /\ req.op = "calculate_score"
    /\ \E e \in behaviours :
        /\ env' = e
        /\ res' = calculate_score(req.a, e, globals)
    /\ globals' = globals_after(globals)
    /\ phase' = "done"
    /\ UNCHANGED <<req, last, session, assets>>

Run == RunWith(Envs)

\* the caller has the outcome; nothing of the call is kept
Return ==
    /\ phase = "done"
    /\ phase' = "idle"
    /\ req' = NoReq
    /\ env' = NoEnv
    /\ res' = NoRes
    /\ UNCHANGED <<globals, last, session, assets>>

Next == CallText \/ CallBatchText \/ CallAudio \/ CallDirect \/ Run \/ Return

Spec == Init /\ [][Next]_vars

---------------------------------------------------------------------------
(* The mapper on its own: map_errors_to_segments on any segment list       *)

\* well-formed and malformed segments: start > end, no text, no duration,
\* and, in a list, overlapping or out of order
MapSegPool ==
    {Seg(R(0), R(2), "um"), Seg(R(2), R(5), "I am ok"), Seg(R(3), R(4), "um"),
     Seg(R(4), R(3), "um"), Seg(R(1), R(1), "")}

MapSegLists == SeqsUpTo(MapSegPool, MaxSegs)

Finding(off) == [offset |-> off, msg |-> "finding " \o IntStr(off + 1)]

FindingLists == SeqsUpTo({Finding(off) : off \in (-1)..MaxOffset}, MaxErrs)

CallMap ==
    /\ phase = "idle"
    /\ \E errors \in FindingLists, segments \in MapSegLists :
        /\ phase' = "called"
        /\ req' = [op |-> "map_errors_to_segments", errors |-> errors,
                   segments |-> segments]
        /\ UNCHANGED <<env, res, globals, last, session, assets>>

RunMap ==
    /\ phase = "called"
    /\ req.op = "map_errors_to_segments"
    /\ res' = map_errors_to_segments(req.errors, req.segments)
    /\ phase' = "done"
    /\ UNCHANGED <<req, env, globals, last, session, assets>>

NextMapper == CallMap \/ RunMap \/ Return

SpecMapper == Init /\ [][NextMapper]_vars

---------------------------------------------------------------------------
(* main.analyze_submission: the /analyze endpoint                           *)

\* an optional form field: None, or the value sent
None == <<>>
Some(x) == <<x>>

\* bool(x) of an optional string or upload
Truthy(x) == x # None /\ x[1] # ""

\* an exception other than an HTTPException, by the name of its class
Error(name) == [type |-> name]

\* the exception of the else branch
NoInput ==
    [type |-> "HTTPException", status_code |-> 400,
     detail |-> "No input provided. Upload audio or paste text."]

\* a response of the endpoint: the JSON of a report, or the HTTPException the
\* handler ends with; calls: what the handler called on the way
Response200(body, calls) == [status |-> 200, body |-> body, calls |-> calls]
ResponseError(exc, calls) ==
    [status |-> exc.status_code, detail |-> exc.detail, calls |-> calls]

\* the handler of "except Exception as e": HTTPException(500, str(e))
except_Exception(e, calls) ==
    ResponseError([type |-> "HTTPException", status_code |-> 500,
                   detail |-> [str |-> e]], calls)

\* steps 3 and 4 once calculate_score is back: its exception goes to the
\* handler, its report gets the segments of the analysis
report_response(final_report, analysis_result, called) ==
    IF ~final_report.ok THEN except_Exception(Error(final_report.exc), called)
    ELSE Response200([final_report.v EXCEPT !.segments = analysis_result.segments],
                     called)

\* steps 3 and 4: score the analysis, put its segments into the report
score_and_return(analysis_result, e, g, calls) ==
    report_response(calculate_score(analysis_result, e, g), analysis_result,
                    Append(calls, "calculate_score"))

\* steps 1 and 2, the if / elif / else over the form fields: the analysis to
\* score, or the exception raised instead
input_analysis(file, text_input, asr) ==
    IF Truthy(file)
    THEN IF asr.ok THEN asr ELSE Raise(Error(asr.exc))
    ELSE IF Truthy(text_input)
    THEN Ok(text_analysis(text_input[1]))
    ELSE Raise(NoInput)

\* what steps 1 and 2 called
input_calls(file) == IF Truthy(file) THEN <<"process_audio">> ELSE <<>>

\* the try block from the analysis on
scored_response(analysis, calls, e, g) ==
    IF ~analysis.ok THEN except_Exception(analysis.exc, calls)
    ELSE score_and_return(analysis.v, e, g, calls)

\* file, text_input: the form fields; asr: the outcome of process_audio for
\* the upload; e: the analyzers' behaviour; g: the module globals
analyze_submission(file, text_input, asr, e, g) ==
    scored_response(input_analysis(file, text_input, asr), input_calls(file), e, g)

\* what process_audio does with the upload: it fails, or the provider's
\* response is parsed
AsrOutcomes ==
    {Raise("ASRProviderError"),
     Ok(provider_analysis("I am ok", <<Seg(R(0), R(2), "um")>>, R(0))),
     Ok(provider_analysis("", <<>>, R(0)))}

ApiEnvs ==
    {e \in Envs :
        /\ e.grammar_tool = "ok"
        /\ e.matches = <<Match(9), Match(0)>>
        /\ e.max_similarity = DefaultSimilarity
        /\ e.compound = R(0)}

\* the files the handler may leave behind before uploads are refused
MaxAssets == 2

\* os.path.join(ASSETS_DIR, uuid4 + extension): a name no file has yet
temp_file_path_of(files) == CHOOSE n \in 1..(Cardinality(files) + 1) : n \notin files

\* a finally block that removes nothing
assets_after_kept(file, remove_ok, files) ==
    IF Truthy(file) THEN files \cup {temp_file_path_of(files)} ELSE files

\* ASSETS_DIR after the request: the upload is saved under temp_file_path, and
\* the finally block removes it unless os.remove raises
assets_after(file, remove_ok, files) ==
    IF Truthy(file) /\ ~remove_ok
    THEN files \cup {temp_file_path_of(files)}
    ELSE files

\* a finally block whose failure to remove the file becomes the response
response_after_unhandled(response, file, remove_ok) ==
    IF Truthy(file) /\ ~remove_ok
    THEN [status |-> 500, detail |-> [str |-> Error("OSError")],
          calls |-> response.calls]
    ELSE response

\* the response once the finally block has run: the handler of the removal
\* logs cleanup_error and raises nothing
response_after(response, file, remove_ok) == response

CallApi ==
    /\ phase = "idle"
    /\ \E file \in {None, Some("a.mp3")},
          text_input \in {None} \cup {Some(t) : t \in Texts} :
        /\ Truthy(file) => Cardinality(assets) < MaxAssets
        /\ phase' = "called"
        /\ req' = [op |-> "analyze_submission", file |-> file,
                   text_input |-> text_input]
        /\ UNCHANGED <<env, res, globals, last, session, assets>>

RunApi ==
    /\ phase = "called"
    /\ req.op = "analyze_submission"
    /\ \E asr \in AsrOutcomes, e \in ApiEnvs, remove_ok \in BOOLEAN :
        /\ env' = [asr |-> asr, e |-> e, remove_ok |-> remove_ok,
                   temp_file_path |-> IF Truthy(req.file)
                                      THEN Some(temp_file_path_of(assets))
                                      ELSE None]
        /\ res' = response_after(
                    analyze_submission(req.file, req.text_input, asr, e, globals),
                    req.file, remove_ok)
        /\ assets' = assets_after(req.file, remove_ok, assets)
    /\ globals' = globals_after(globals)
    /\ phase' = "done"
    /\ UNCHANGED <<req, last, session>>

NextApi == CallApi \/ RunApi \/ Return

SpecApi == Init /\ [][NextApi]_vars

---------------------------------------------------------------------------
(* Repeated calls: the same arguments scored again, other calls in between *)

RepeatArgs ==
    {[text |-> "hi", segments |-> <<Seg(R(0), R(2), "you know um")>>,
      duration |-> R(10), wpm |-> wpm, word_count |-> 30] : wpm \in {130, 170}}
        \cup {text_analysis("hi")}

RepeatEnvs ==
    {e \in Envs :
        /\ e.matches = <<Match(9), Match(0)>>
        /\ e.max_similarity = DefaultSimilarity
        /\ e.embed_raise = 0 /\ ~e.sentiment_raise
        /\ e.compound \in {R(0), Rat(9, 10)}}

CallRepeat ==
    /\ phase = "idle"
    /\ \E a \in RepeatArgs : Call("calculate_score", "direct", a)

RunRepeat == RunWith(RepeatEnvs)

\* the caller keeps what it passed, how the analyzers behaved and what it got
ReturnKept ==
    /\ phase = "done"
    /\ last' = [kind |-> "call", a |-> req.a, e |-> env, res |-> res]
    /\ phase' = "idle"
    /\ req' = NoReq
    /\ env' = NoEnv
    /\ res' = NoRes
    /\ UNCHANGED <<globals, session, assets>>

NextRepeat == CallRepeat \/ RunRepeat \/ Return \/ ReturnKept

SpecRepeat == Init /\ [][NextRepeat]_vars

---------------------------------------------------------------------------
(* The batch drivers: app_deploy.main and frontend/ui.main                 *)
(* Both keep the same session state; app_deploy calls the backend modules  *)
(* itself, ui posts every item to /analyze.  The driver is fixed by the    *)
(* click that starts the loop.                                             *)

MaxQueue == 2

Drivers == {"app_deploy", "ui"}

\* what "Add to Queue" can append: an audio upload, an uploaded .txt file
\* (which may be empty) or pasted text (never blank)
QueueItems ==
    {[type |-> "audio", content |-> None, display_name |-> "a.mp3"],
     [type |-> "text", content |-> Some(""), display_name |-> "b.txt"],
     [type |-> "text", content |-> Some("hi"), display_name |-> "Manual"]}

\* the entry appended for an item; the uuid is its position in the queue
queue_entry(item, queue) ==
    [id |-> Len(queue) + 1, display_name |-> item.display_name,
     type |-> item.type, content |-> item.content]

\* the entry of batch_results for a scored item
result_of(report, item) ==
    [report |-> report, student_name |-> item.display_name, source_item |-> item]

\* outcome of the body of the loop for one item: the result to append, or
\* nothing
Appended(result) == [ok |-> TRUE, v |-> result]
Skipped(why) == [ok |-> FALSE, exc |-> why]

\* app_deploy: the analysis of an item, or the exception of the transcription
item_analysis(item, asr) ==
    IF item.type = "audio" THEN asr
    ELSE Ok(batch_text_analysis(item.content[1]))

\* app_deploy: the handler of the loop's try block, and the append after it
deploy_result(final_score, item) ==
    IF ~final_score.ok THEN Skipped(final_score.exc)
    ELSE Appended(result_of(final_score.v, item))

\* a loop body that records a zero report for a failed item
deploy_result_zero(final_score, item) ==
    IF final_score.ok THEN Appended(result_of(final_score.v, item))
    ELSE Appended(result_of(degenerate_report(""), item))

deploy_scored(analysis, e, g) ==
    IF ~analysis.ok THEN analysis
    ELSE calculate_score(analysis.v, e, g)

\* an app_deploy loop body that records a zero report for a failed item
batch_item_deploy_zero(item, asr, e, g) ==
    deploy_result_zero(deploy_scored(item_analysis(item, asr), e, g), item)

\* app_deploy: the try block of the loop and its handler
batch_item_deploy(item, asr, e, g) ==
    deploy_result(deploy_scored(item_analysis(item, asr), e, g), item)

\* ui: a response other than 200 appends nothing
ui_result(resp, item) ==
    IF resp.status = 200 THEN Appended(result_of(resp.body, item))
    ELSE Skipped("status")

\* ui: the try block of the loop; the item is posted as a file or as text
batch_item_ui(item, asr, e, g) ==
    ui_result(analyze_submission(
                  IF item.type = "audio" THEN Some(item.display_name) ELSE None,
                  IF item.type = "audio" THEN None ELSE item.content,
                  asr, e, g),
              item)

batch_item(driver, item, asr, e, g) ==
    IF driver = "app_deploy" THEN batch_item_deploy(item, asr, e, g)
    ELSE batch_item_ui(item, asr, e, g)

\* results after one turn of the loop
results_after(results, out) == IF out.ok THEN Append(results, out.v) ELSE results

BatchAsr ==
    {Raise("ASRProviderError"),
     Ok(provider_analysis("I am ok", <<Seg(R(0), R(2), "um")>>, R(0)))}

BatchEnvs == {e \in ApiEnvs : e.embed_raise \in {0, 1} /\ ~e.sentiment_raise}

\* list.sort(key=overall_score, reverse=True): a stable sort; insert r behind
\* every result that does not score less
RECURSIVE insert_by_score(_, _)
insert_by_score(sorted, r) ==
    IF sorted = <<>> THEN <<r>>
    ELSE IF Head(sorted).report.overall_score < r.report.overall_score
    THEN <<r>> \o sorted
    ELSE <<Head(sorted)>> \o insert_by_score(Tail(sorted), r)

RECURSIVE sort_results(_, _, _)
sort_results(results, k, sorted) ==
    IF k > Len(results) THEN sorted
    ELSE sort_results(results, k + 1, insert_by_score(sorted, results[k]))

\* what a run of the script does to the session while it draws the page: the
\* leaderboard view sorts batch_results in place
rendered(s) ==
    IF s.page = "dashboard" /\ s.selected_student = None
    THEN [s EXCEPT !.batch_results = sort_results(@, 1, <<>>)]
    ELSE s

\* a sidebar button that changes the page and keeps the selection
navigate_keeping(s, page) == [s EXCEPT !.page = page]

\* the sidebar buttons "Upload & Queue" and "Dashboard"
navigate(s, page) == [s EXCEPT !.page = page, !.selected_student = None]

\* sidebar: "Upload & Queue"
GoUpload ==
    /\ phase = "idle"
    /\ session.page # "upload"
    /\ session' = rendered(navigate(session, "upload"))
    /\ UNCHANGED <<phase, req, env, res, globals, last, assets>>

\* sidebar: "Dashboard"
GoDashboard ==
    /\ phase = "idle"
    /\ session.page # "dashboard" \/ session.selected_student # None
    /\ session' = rendered(navigate(session, "dashboard"))
    /\ UNCHANGED <<phase, req, env, res, globals, last, assets>>

\* leaderboard: "View Report" in the row of one result
ViewReport ==
    /\ phase = "idle"
    /\ session.page = "dashboard"
    /\ session.selected_student = None
    /\ \E i \in 1..Len(session.batch_results) :
        session' = rendered([session EXCEPT
                        !.selected_student = Some(session.batch_results[i])])
    /\ UNCHANGED <<phase, req, env, res, globals, last, assets>>

\* report view: "Back"
Back ==
    /\ phase = "idle"
    /\ session.page = "dashboard"
    /\ session.batch_results # <<>>
    /\ session.selected_student # None
    /\ session' = rendered([session EXCEPT !.selected_student = None])
    /\ UNCHANGED <<phase, req, env, res, globals, last, assets>>

\* sidebar: "Reset System"
ResetSystem ==
    /\ phase = "idle"
    /\ session # InitialSession
    /\ session' = InitialSession
    /\ UNCHANGED <<phase, req, env, res, globals, last, assets>>

\* "Add to Queue" with one upload or with pasted text
AddToQueue ==
    /\ phase = "idle"
    /\ session.page = "upload"
    /\ Len(session.batch_queue) < MaxQueue
    /\ \E item \in QueueItems :
        session' = [session EXCEPT !.batch_queue =
                        Append(@, queue_entry(item, session.batch_queue))]
    /\ UNCHANGED <<phase, req, env, res, globals, last, assets>>

\* "Analyze All Students": the loop starts with results = []
ClickAnalyzeAll ==
    /\ phase = "idle"
    /\ session.page = "upload"
    /\ session.batch_queue # <<>>
    /\ \E driver \in Drivers :
        req' = [op |-> "analyze_all", driver |-> driver, i |-> 0,
                results |-> <<>>, behaviours |-> <<>>]
    /\ phase' = "called"
    /\ UNCHANGED <<env, res, globals, last, session, assets>>

\* one turn of the loop; behaviours keeps how transcription and the
\* analyzers behaved for each item
AnalyzeItem ==
    /\ phase = "called"
    /\ req.op = "analyze_all"
    /\ req.i < Len(session.batch_queue)
    /\ LET item == session.batch_queue[req.i + 1]
       IN  \E asr \in (IF item.type = "audio" THEN BatchAsr
                        ELSE {Raise("no upload")}),
              e \in BatchEnvs :
            req' = [req EXCEPT
                        !.i = @ + 1,
                        !.results = results_after(@,
                            batch_item(req.driver, item, asr, e, globals)),
                        !.behaviours = Append(@, [asr |-> asr, e |-> e])]
    /\ globals' = globals_after(globals)
    /\ UNCHANGED <<phase, env, res, last, session, assets>>

\* after the loop: the results are stored and the dashboard is shown
FinishAnalyzeAll ==
    /\ phase = "called"
    /\ req.op = "analyze_all"
    /\ req.i = Len(session.batch_queue)
    /\ session' = [session EXCEPT
                        !.batch_results = req.results,
                        !.processing_complete = (req.driver = "ui") \/ @,
                        !.page = "dashboard"]
    /\ phase' = "done"
    /\ UNCHANGED <<req, env, res, globals, last, assets>>

\* st.rerun() after the loop: the script runs again and draws the dashboard
Rerun ==
    /\ phase = "done"
    /\ req.op = "analyze_all"
    /\ session' = rendered(session)
    /\ phase' = "idle"
    /\ req' = NoReq
    /\ env' = NoEnv
    /\ res' = NoRes
    /\ UNCHANGED <<globals, last, assets>>

NextBatch ==
    \/ GoUpload \/ GoDashboard \/ ViewReport \/ Back \/ ResetSystem \/ AddToQueue
    \/ ClickAnalyzeAll \/ AnalyzeItem \/ FinishAnalyzeAll \/ Rerun

SpecBatch == Init /\ [][NextBatch]_vars

---------------------------------------------------------------------------
(* The grammar analyzer on its own: nlp_utils.analyze_grammar              *)

\* texts with no defect, with one defect of each rule, and with several
GrammarTexts ==
    {"", "I am ok", "um I is ok", "Good morning myself Raj", "one of my friend",
     "we return back", "They is. Myself Raj", "I is I is"}

\* a match of LanguageTool with the replacements it suggests
MatchWith(off, replacements) == [Match(off) EXCEPT !.replacements = replacements]

GrammarMatchLists ==
    MatchLists \cup
        {<<MatchWith(0, <<>>)>>, <<MatchWith(3, <<"a">>)>>,
         <<MatchWith(3, <<"a", "b">>), Match(3)>>,
         <<MatchWith(5, <<"a", "b", "c", "d">>)>>}

GrammarEnvs ==
    {[grammar_tool |-> tool, matches |-> matches, embed_raise |-> 0,
      max_similarity |-> DefaultSimilarity, sentiment_raise |-> FALSE,
      compound |-> R(0)] :
        tool \in {"none", "ok", "raise"}, matches \in GrammarMatchLists}

CallGrammar ==
    /\ phase = "idle"
    /\ \E text \in GrammarTexts :
        /\ phase' = "called"
        /\ req' = [op |-> "analyze_grammar", text |-> text]
        /\ UNCHANGED <<env, res, globals, last, session, assets>>

RunGrammar ==
    /\ phase = "called"
    /\ req.op = "analyze_grammar"
    /\ \E e \in GrammarEnvs :
        /\ env' = e
        /\ res' = Ok(analyze_grammar(req.text, e))
    /\ phase' = "done"
    /\ UNCHANGED <<req, globals, last, session, assets>>

NextGrammar == CallGrammar \/ RunGrammar \/ Return

SpecGrammar == Init /\ [][NextGrammar]_vars

---------------------------------------------------------------------------
(* Pace and tone: calls that differ in speech rate, duration and sentiment *)

MaxWpm == 170

\* the compound scores VADER can give, at and around the limits of the bands
PaceCompounds ==
    {R(0 - 1), R(0), Rat(4, 10), Rat(42, 100), Rat(8, 10), Rat(82, 100),
     Rat(9, 10), R(1)}

PaceEnvs ==
    {[grammar_tool |-> "ok", matches |-> <<>>, embed_raise |-> 0,
      max_similarity |-> DefaultSimilarity, sentiment_raise |-> FALSE,
      compound |-> c] : c \in PaceCompounds}

CallPace ==
    /\ phase = "idle"
    /\ \E wpm \in 0..MaxWpm, duration \in {R(0), Rat(1, 2), R(10)} :
        Call("calculate_score", "direct",
             [text |-> "hi", segments |-> <<>>, duration |-> duration,
              wpm |-> wpm, word_count |-> 30])

RunPace == RunWith(PaceEnvs)

NextPace == CallPace \/ RunPace \/ Return

SpecPace == Init /\ [][NextPace]_vars

---------------------------------------------------------------------------
(* audio.process_audio: the polling loop of a job-based transcription      *)
(* req.elapsed is time.time() - start at the top of the loop, in seconds;  *)
(* req.last_poll the response of the poll before, None before the first.   *)

POLL_INTERVAL == Rat(3, 2)
POLL_TIMEOUT == 120

\* how long requests.get takes before it returns or raises (timeout=30)
RequestTimes == {R(0), R(1), R(30)}

\* what requests.get gives: an exception, a response that is not OK, or an OK
\* response whose body is no JSON object, or is one with a status (the empty
\* status stands for no status key at all) and, for a finished job, a result
\* that _parse_provider_response can or cannot read
PollResponses ==
    {[kind |-> "exception"]}
        \cup {[kind |-> "not ok", status_code |-> c] : c \in {404, 429, 500, 503, 599}}
        \cup {[kind |-> "no json"]}
        \cup {[kind |-> "json", status |-> s, parses |-> TRUE] :
                s \in {"completed", "Done", "succeeded", "finished", "failed",
                       "ERROR", "processing", "queued", ""}}
        \cup {[kind |-> "json", status |-> "completed", parses |-> FALSE]}

ASRProviderError(msg) == [ok |-> FALSE, exc |-> "ASRProviderError", msg |-> msg]

\* the result _parse_provider_response makes of a finished job
PolledResult == Ok(provider_analysis("I am ok", <<Seg(R(0), R(2), "um")>>, R(0)))

\* time.time() - start > POLL_TIMEOUT
timed_out(elapsed) == RLt(R(POLL_TIMEOUT), elapsed)

\* a retry that does not sleep
elapsed_after_no_sleep(elapsed, request_time) == RAdd(elapsed, request_time)

\* the elapsed time at the next turn: the request, then time.sleep(POLL_INTERVAL)
elapsed_after(elapsed, request_time) ==
    RAdd(RAdd(elapsed, request_time), POLL_INTERVAL)

\* the body of the loop after the timeout test: the outcome the function ends
\* with, or [retry |-> TRUE] when it sleeps and polls again
poll_once(poll_resp) ==
    IF poll_resp.kind = "exception" THEN ASRProviderError("Polling failed")
    ELSE IF poll_resp.kind = "not ok"
    THEN IF 500 <= poll_resp.status_code /\ poll_resp.status_code < 600
         THEN [retry |-> TRUE]
         ELSE ASRProviderError("Polling failed")
    ELSE IF poll_resp.kind = "no json" THEN Raise("ValueError")
    ELSE IF poll_resp.status # ""
            /\ Lower(poll_resp.status) \in {"completed", "done", "succeeded", "finished"}
    THEN IF poll_resp.parses THEN PolledResult ELSE Raise("AttributeError")
    ELSE IF poll_resp.status # "" /\ Lower(poll_resp.status) \in {"failed", "error"}
    THEN ASRProviderError("ASR job failed")
    ELSE [retry |-> TRUE]

\* the upload returned a job to poll: start = time.time()
StartPolling ==
    /\ phase = "idle"
    /\ phase' = "polling"
    /\ req' = [op |-> "process_audio", elapsed |-> R(0), last_poll |-> None]
    /\ UNCHANGED <<env, res, globals, last, session, assets>>

\* a turn of the loop that finds the time over
PollTimeout ==
    /\ phase = "polling"
    /\ timed_out(req.elapsed)
    /\ res' = ASRProviderError("Timeout waiting for transcription result.")
    /\ phase' = "done"
    /\ UNCHANGED <<req, env, globals, last, session, assets>>

\* a turn of the loop that polls: the function ends, or sleeps and goes on
Poll ==
    /\ phase = "polling"
    /\ ~timed_out(req.elapsed)
    /\ \E poll_resp \in PollResponses, request_time \in RequestTimes :
        /\ req' = [req EXCEPT
                        !.elapsed = IF "retry" \in DOMAIN poll_once(poll_resp)
                                    THEN elapsed_after(@, request_time)
                                    ELSE RAdd(@, request_time),
                        !.last_poll = Some(poll_resp)]
        /\ IF "retry" \in DOMAIN poll_once(poll_resp)
           THEN UNCHANGED <<phase, res>>
           ELSE phase' = "done" /\ res' = poll_once(poll_resp)
    /\ UNCHANGED <<env, globals, last, session, assets>>

NextPoll == StartPolling \/ PollTimeout \/ Poll \/ Return

\* the thread running process_audio is not held up for ever: every request
\* returns or raises within its timeout and every sleep ends
SpecPoll == Init /\ [][NextPoll]_vars /\ WF_vars(PollTimeout \/ Poll)

---------------------------------------------------------------------------
(* Properties of calculate_score                                           *)

\* the calls of calculate_score that have run
Scored == phase = "done" /\ req.op = "calculate_score"
Reported == Scored /\ res.ok
\* the reports of the calls that got past the degenerate case
Rated == Reported /\ req.a.word_count > 0

\* sum(breakdown.values())
breakdown_sum(scores) ==
    RAdd(scores.content_structure,
         R(scores.flow + scores.grammar + scores.clarity + scores.confidence))

\* C1: a call with word_count == 0, whatever its text, segments, wpm and
\* duration, returns a report with overall_score 0, every breakdown category 0
\* and no events, and invokes no analyzer.
C1_DegenerateReport ==
    (Scored /\ req.a.word_count = 0) =>
        /\ res.ok
        /\ res.v.overall_score = 0
        /\ \A c \in Categories \ {"content_structure"} : res.v.breakdown[c] = 0
        /\ res.v.breakdown.content_structure = R(0)
        /\ res.v.events = <<>>
        /\ res.invoked = <<>>

\* a degenerate call that came with segments, a speech rate and a duration,
\* while the grammar checker had findings to give
C1_Witness ==
    /\ Scored
    /\ req.a.word_count = 0
    /\ req.a.segments # <<>>
    /\ req.a.wpm > 0
    /\ RLt(R(0), req.a.duration)
    /\ env.grammar_tool = "ok" /\ env.matches # <<>>
    /\ res.ok /\ res.v.overall_score = 0

\* C2: overall_score is an integer in 0..100 and equals
\* round(min(100, sum(breakdown.values()) / 100 * 100)).
C2_OverallIsRounded ==
    Reported =>
        /\ res.v.overall_score \in 0..100
        /\ res.v.overall_score = RRound(RMin(R(100), breakdown_sum(res.v.breakdown)))

\* C3: every breakdown value is an integer between 0 and its category maximum.
C3_BreakdownIntegers ==
    Reported =>
        /\ IsInt(res.v.breakdown.content_structure)
        /\ RLe(R(0), res.v.breakdown.content_structure)
        /\ RLe(res.v.breakdown.content_structure, R(MAX_SCORES.content_structure))
        /\ \A c \in Categories \ {"content_structure"} :
                res.v.breakdown[c] \in 0..MAX_SCORES[c]

\* the analyzer calls of a scoring call that raise: the embedder in one of the
\* two presence checks (not reached for a text without sentences), and, when
\* the presence checks passed, the grammar checker's check or the sentiment
\* analyzer
embedder_raises == env.embed_raise # 0 /\ has_sentences(req.a.text)
checker_raises == env.grammar_tool = "raise" /\ ~embedder_raises
sentiment_raises == env.sentiment_raise /\ ~embedder_raises

\* C5: when an analyzer invoked by a call with word_count > 0 raises, the call
\* fails: it returns no report.
C5_AnalyzerFailurePropagates ==
    (Scored /\ req.a.word_count > 0
        /\ (embedder_raises \/ checker_raises \/ sentiment_raises)) => ~res.ok

\* C6: for the durations the callers supply, every content event of a report
\* stands before every flow and every confidence event.
C6_ContentBeforeDelivery ==
    (Reported /\ req.caller \in {"text", "audio"}) =>
        \A i, j \in 1..Len(res.v.events) :
            (/\ res.v.events[i].type = "content"
             /\ res.v.events[j].type \in {"flow", "confidence"}) => i < j

\* number of positions of seq holding x
Occurrences(seq, x) == Cardinality({i \in 1..Len(seq) : seq[i] = x})

SameEvents(a, b) ==
    /\ Len(a) = Len(b)
    /\ \A i \in 1..Len(a) : Occurrences(a, a[i]) = Occurrences(b, a[i])

EventTypes == {"grammar", "clarity", "content", "flow", "confidence"}

\* C7: the events of a report are in non-decreasing order of time and are
\* exactly the events generated during the call, none dropped or duplicated.
C7_EventsSorted ==
    Reported =>
        /\ \A i \in 1..(Len(res.v.events) - 1) :
                RLe(res.v.events[i].time, res.v.events[i + 1].time)
        /\ SameEvents(res.v.events, res.generated)
        /\ \A i \in 1..Len(res.v.events) : res.v.events[i].type \in EventTypes

\* a report with a grammar, a clarity and a later-appended event, for which
\* the order of generation was not the order of time
C7_Witness ==
    /\ Reported
    /\ Len(res.v.events) >= 3
    /\ res.generated # res.v.events
    /\ \E i, j \in 1..Len(res.v.events) :
            res.v.events[i].type = "grammar" /\ res.v.events[j].type = "clarity"
    /\ \E i \in 1..Len(res.v.events) :
            res.v.events[i].type \in {"content", "flow", "confidence"}

\* the findings a call has: those of the rule tier, and the checker's when the
\* checker is there and works
findings_count ==
    Len(rule_findings(req.a.text))
        + (IF env.grammar_tool = "ok" THEN Len(env.matches) ELSE 0)

\* C9: with no segments and word_count > 0 the grammar findings are still
\* counted and the grammar score is taken from findings per 100 words (20
\* below 2, 15 below 5, else 10), and the report has no grammar and no clarity
\* event.
C9_NoSegmentsNoAnchoredEvents ==
    (Reported /\ req.a.segments = <<>> /\ req.a.word_count > 0) =>
        /\ res.v.feedback.grammar = findings_count
        /\ Len(res.v.details.errors) = Min(5, findings_count)
        /\ res.v.breakdown.grammar =
                (IF findings_count * 100 < 2 * req.a.word_count THEN 20
                 ELSE IF findings_count * 100 < 5 * req.a.word_count THEN 15
                 ELSE 10)
        /\ \A i \in 1..Len(res.v.events) :
                res.v.events[i].type \notin {"grammar", "clarity"}

\* a text-only submission with findings of both tiers and a text that holds a
\* filler word
C9_Witness ==
    /\ Reported
    /\ req.a.segments = <<>>
    /\ req.a.word_count > 0
    /\ Contains(" " \o Lower(req.a.text) \o " ", " um ")
    /\ Len(rule_findings(req.a.text)) > 0
    /\ env.grammar_tool = "ok" /\ env.matches # <<>>
    /\ res.v.feedback.grammar >= 2
    /\ res.v.breakdown.grammar = 10

\* C8: a call with the arguments and the analyzer outputs of an earlier call,
\* whatever was scored in between, has the outcome that call had; no call
\* leaves anything behind in the module's objects.
C8_Deterministic ==
    /\ globals = InitialGlobals
    /\ (Scored /\ last # NoRes /\ last.a = req.a /\ last.e = env) => res = last.res

\* the repeat of a call that reported clarity events for a filler phrase
C8_Witness ==
    /\ Reported
    /\ last # NoRes /\ last.a = req.a /\ last.e = env
    /\ \E i \in 1..Len(res.v.events) :
            /\ res.v.events[i].type = "clarity"
            /\ res.v.events[i].msg = "Filler phrase: 'you know'"

\* the score of the grammar bands for count findings in word_count words
banded_grammar(count, word_count) ==
    IF count * 100 < 2 * word_count THEN 20
    ELSE IF count * 100 < 5 * word_count THEN 15
    ELSE 10

\* C11: when the grammar checker is missing (grammar_tool is None) the
\* findings of a call are exactly those of the rule tier, the call completes,
\* and the grammar score is banded on their number; the outcome is fixed by
\* the text alone, whatever the checker would have found.
C11_MissingCheckerFallback ==
    (Scored /\ env.grammar_tool = "none" /\ req.a.word_count > 0
        /\ ~embedder_raises /\ ~sentiment_raises) =>
        /\ res.ok
        /\ res.v.feedback.grammar = Len(rule_findings(req.a.text))
        /\ res.v.details.errors =
                SubSeq(rule_findings(req.a.text), 1,
                       Min(5, Len(rule_findings(req.a.text))))
        /\ res.v.breakdown.grammar =
                banded_grammar(Len(rule_findings(req.a.text)), req.a.word_count)

\* a call without the checker on a text with a rule-tier finding, while the
\* checker would have had findings of its own
C11_Witness ==
    /\ Rated
    /\ env.grammar_tool = "none"
    /\ env.matches # <<>>
    /\ res.v.feedback.grammar = 1
    /\ res.v.details.errors[1].category = "Custom Rule"
    /\ res.v.breakdown.grammar = 10

\* finding counts to compare a call's count with
MaxFindings == 6

\* C12: the grammar score is 20 when findings / word_count * 100 is below 2,
\* 15 when it is at least 2 and below 5, and 10 otherwise; so for the call's
\* word_count fewer findings never score less and more findings never score
\* more than the call's count did.
C12_GrammarBands ==
    Rated =>
        /\ res.v.breakdown.grammar =
                banded_grammar(res.v.feedback.grammar, req.a.word_count)
        /\ \A n \in 0..MaxFindings :
            LET other == grammar_band(per_100(n, req.a.word_count).v)
            IN  /\ n <= res.v.feedback.grammar => other >= res.v.breakdown.grammar
                /\ n >= res.v.feedback.grammar => other <= res.v.breakdown.grammar

\* one finding in thirty words: 3.33 per 100 words, the middle band
C12_Witness ==
    /\ Rated
    /\ req.a.word_count = 30
    /\ res.v.feedback.grammar = 1
    /\ res.v.breakdown.grammar = 15

\* the best case but for the salutation: every bucket matched, wpm in the
\* ideal band, no filler occurrence, no grammar finding, positivity 0.95
BestCase ==
    /\ Rated
    /\ \A b \in AllBuckets : RLt(SEMANTIC_THRESHOLD, env.max_similarity[b])
    /\ req.a.wpm \in 111..140
    /\ res.v.feedback.clarity = R(0)
    /\ res.v.feedback.grammar = 0
    /\ res.v.feedback.confidence = Rat(95, 100)

AllMaxima ==
    /\ res.v.overall_score = 100
    /\ res.v.breakdown.content_structure = R(MAX_SCORES.content_structure)
    /\ \A c \in Categories \ {"content_structure"} :
            res.v.breakdown[c] = MAX_SCORES[c]

\* C13 as stated: in the best case with any salutation the scorer recognises,
\* enthusiastic or bare, overall_score is 100 and every category is at its
\* maximum.
C13_BestCaseAnySalutation ==
    (BestCase /\ salutation_score(req.a.text) > 0) => AllMaxima

\* C13 amended: in the best case with an enthusiastic salutation (worth 5)
\* overall_score is 100 and every category is at its maximum; with a bare
\* greeting (worth 2) content_structure is 37 and overall_score is 97.
C13_BestCaseEnthusiastic ==
    /\ (BestCase /\ salutation_score(req.a.text) = 5) => AllMaxima
    /\ (BestCase /\ salutation_score(req.a.text) = 2) =>
            /\ res.v.breakdown.content_structure = R(37)
            /\ res.v.overall_score = 97

\* the best case of a text that opens with "Good morning"
C13_Witness ==
    /\ BestCase
    /\ Contains(Lower(req.a.text), "good morning")
    /\ res.v.overall_score = 100
    /\ res.v.events = <<>>

\* C16: for a text-only submission of at least one word the endpoint and the
\* batch driver pass segments = [], wpm = 130 and duration =
\* word_count / 130 * 60, and the report has flow 10 and no flow event.
C16_TextOnlyIdealPace ==
    (Scored /\ req.caller \in {"text", "batch"} /\ SplitLen(req.a.text) >= 1) =>
        /\ req.a.word_count = SplitLen(req.a.text)
        /\ req.a.segments = <<>>
        /\ req.a.wpm = 130
        /\ req.a.duration = Rat(req.a.word_count * 60, 130)
        /\ res.ok =>
                /\ res.v.breakdown.flow = 10
                /\ \A i \in 1..Len(res.v.events) : res.v.events[i].type # "flow"

\* a text item of the batch queue whose report has events, none about pace
C16_Witness ==
    /\ Rated
    /\ req.caller = "batch"
    /\ req.a.word_count = 4
    /\ res.v.breakdown.flow = 10
    /\ Len(res.v.events) >= 2

\* the findings of a call in their original order: the rule tier's, then the
\* checker's when the checker is there and works
findings_of_call ==
    rule_findings(req.a.text)
        \o (IF env.grammar_tool = "ok" THEN checker_findings(env) ELSE <<>>)

\* C15: every report echoes its inputs: text and segments are the input's in
\* every case, the degenerate one included; for word_count > 0 details.wpm
\* and details.duration are the input's and details.errors is the first
\* min(5, n) findings in their original order.
C15_ReportEchoesInputs ==
    Reported =>
        /\ res.v.text = req.a.text
        /\ res.v.segments = req.a.segments
        /\ req.a.word_count > 0 =>
                /\ res.v.details.wpm = req.a.wpm
                /\ res.v.details.duration = req.a.duration
                /\ res.v.details.errors =
                        SubSeq(findings_of_call, 1, Min(5, Len(findings_of_call)))

\* the clarity events of the report
clarity_events ==
    LET is_clarity(ev) == ev.type = "clarity"
    IN  SelectSeq(res.v.events, is_clarity)

\* C18: the report has one clarity event for each filler occurrence counted:
\* their number is filler_count, the count the filler rate
\* (filler_count / word_count * 100) is made from, and each is at the start of
\* the segment the occurrence was found in.
C18_ClarityEventPerOccurrence ==
    Rated =>
        /\ RMul(R(Len(clarity_events)), R(100))
                = RMul(res.v.feedback.clarity, R(req.a.word_count))
        /\ \A n \in 1..Len(clarity_events) :
                \E i \in 1..Len(req.a.segments) :
                    /\ clarity_events[n].time = req.a.segments[i].start
                    /\ clarity_events[n].segment_text = req.a.segments[i].text

\* the filler occurrences counted in the segments of the call
occurrences_in_segments ==
    filler_count_of(filler_hits(req.a.segments,
                                RUBRIC_CONFIG.clarity.filler_words,
                                RUBRIC_CONFIG.clarity.filler_phrases))

\* C19: the clarity score is banded on filler_rate = occurrences in the
\* segments / word_count * 100: below 3 gives 15, below 6 gives 12, below 10
\* gives 9, otherwise 3; with no segments the rate is 0 and clarity is 15
\* whatever fillers the text holds.
C19_ClarityBands ==
    Rated =>
        /\ res.v.feedback.clarity =
                Rat(occurrences_in_segments * 100, req.a.word_count)
        /\ res.v.breakdown.clarity =
                (IF occurrences_in_segments * 100 < 3 * req.a.word_count THEN 15
                 ELSE IF occurrences_in_segments * 100 < 6 * req.a.word_count THEN 12
                 ELSE IF occurrences_in_segments * 100 < 10 * req.a.word_count THEN 9
                 ELSE 3)
        /\ req.a.segments = <<>> =>
                /\ res.v.feedback.clarity = R(0)
                /\ res.v.breakdown.clarity = 15

\* a text-only submission whose text holds the filler "um"
C19_Witness ==
    /\ Rated
    /\ req.a.segments = <<>>
    /\ Contains(" " \o Lower(req.a.text) \o " ", " um ")
    /\ res.v.feedback.clarity = R(0)
    /\ res.v.breakdown.clarity = 15

\* the buckets of a list the embedder matched for the call's text
buckets_matched(buckets) ==
    IF has_sentences(req.a.text)
    THEN Cardinality({i \in 1..Len(buckets) :
                        RLt(SEMANTIC_THRESHOLD, env.max_similarity[buckets[i]])})
    ELSE 0

\* C21: content_structure is the salutation bonus (5, 2 or 0) plus
\* (buckets_found / 3) * 20 over the three mandatory buckets plus 10 when the
\* optional bucket is present plus the structural-flow bonus, which is 5
\* exactly when a salutation is present and at least two mandatory buckets
\* were found; the total never exceeds 40.
C21_ContentStructure ==
    Rated =>
        LET salutation == salutation_score(req.a.text)
            found == buckets_matched(MandatoryBuckets)
            optional == IF buckets_matched(<<"Optional_Details">>) = 1 THEN 10 ELSE 0
            bonus == IF salutation > 0 /\ found >= 2 THEN 5 ELSE 0
        IN  /\ salutation \in {5, 2, 0}
            /\ Len(MandatoryBuckets) = 3
            /\ res.v.breakdown.content_structure =
                    Rat(3 * (salutation + optional + bonus) + 20 * found, 3)
            /\ RLe(res.v.breakdown.content_structure, R(40))

\* a bare greeting with one mandatory bucket found: 2 + 20/3, no bonus
C21_Witness ==
    /\ Rated
    /\ salutation_score(req.a.text) = 2
    /\ buckets_matched(MandatoryBuckets) = 1
    /\ buckets_matched(<<"Optional_Details">>) = 0
    /\ res.v.breakdown.content_structure = Rat(26, 3)

\* the events of the report that satisfy a test
events_where(Test(_)) == SelectSeq(res.v.events, Test)

\* C22: the report has exactly one content-type event at time 0.5 for each
\* mandatory bucket that was not found (3 - buckets_found of them, none when
\* all three are found), and exactly one suggestion event at time 1.0 when
\* the optional bucket did not match and none when it matched.
C22_ContentEvents ==
    Rated =>
        LET found == buckets_matched(MandatoryBuckets)
            early(ev) == ev.type = "content" /\ ev.time = Rat(1, 2)
            suggestion(ev) == ev.label = "Suggestion"
            missing(i) ==
                ~RLt(SEMANTIC_THRESHOLD, env.max_similarity[MandatoryBuckets[i]])
        IN  /\ Len(events_where(early)) = 3 - found
            /\ \A i \in 1..Len(MandatoryBuckets) :
                LET about(ev) ==
                        /\ early(ev)
                        /\ ev.msg = "You didn't mention your "
                                \o Replace(MandatoryBuckets[i], "Mandatory_", "")
                                \o "."
                IN  Len(events_where(about)) = IF missing(i) THEN 1 ELSE 0
            /\ Len(events_where(suggestion)) =
                    IF buckets_matched(<<"Optional_Details">>) = 0 THEN 1 ELSE 0
            /\ \A k \in 1..Len(res.v.events) :
                suggestion(res.v.events[k]) =>
                    /\ res.v.events[k].time = R(1)
                    /\ res.v.events[k].type = "content"

\* two mandatory buckets missing, the optional bucket matched: two early
\* content events and no suggestion
C22_Witness ==
    /\ Rated
    /\ buckets_matched(MandatoryBuckets) = 1
    /\ buckets_matched(<<"Optional_Details">>) = 1
    /\ LET content(ev) == ev.type = "content"
       IN  Len(events_where(content)) = 2

\* C23: the flow score is 10 when wpm is within the ideal band 111..140, 6
\* when wpm is within the fast band 141..160 or the slow band 81..110, and 2
\* otherwise; for integer wpm the three bands are contiguous and disjoint, so
\* every wpm in 81..160 scores 6 or 10 and every other wpm scores 2.
C23_FlowBands ==
    Rated =>
        /\ req.a.wpm \in 111..140 => res.v.breakdown.flow = 10
        /\ req.a.wpm \in (141..160) \cup (81..110) => res.v.breakdown.flow = 6
        /\ req.a.wpm \notin 81..160 => res.v.breakdown.flow = 2
        /\ (81..110) \cup (111..140) \cup (141..160) = 81..160
        /\ (81..110) \cap (111..140) = {}
        /\ (111..140) \cap (141..160) = {}

\* the last wpm of the fast band
C23_Witness ==
    /\ Rated
    /\ req.a.wpm = 160
    /\ res.v.breakdown.flow = 6

\* the flow-type events of the report
flow_events ==
    LET is_flow(ev) == ev.type = "flow"
    IN  SelectSeq(res.v.events, is_flow)

\* C24: a flow-type pace event is emitted iff the flow score is below 10;
\* there is at most one, its time is duration - 1, and its message says the
\* speaker is too fast when wpm is above the ideal band and too slow when wpm
\* is below it.
C24_PaceEvent ==
    Rated =>
        /\ Len(flow_events) = IF res.v.breakdown.flow < 10 THEN 1 ELSE 0
        /\ \A k \in 1..Len(flow_events) :
            /\ flow_events[k].time = RSub(req.a.duration, R(1))
            /\ req.a.wpm > 140 =>
                    /\ Contains(flow_events[k].msg, "too fast")
                    /\ ~Contains(flow_events[k].msg, "slow")
            /\ req.a.wpm < 111 =>
                    /\ Contains(flow_events[k].msg, "slow")
                    /\ ~Contains(flow_events[k].msg, "fast")

\* a slow speaker in a ten-second recording: the pace event is at 9 s
C24_Witness ==
    /\ Rated
    /\ req.a.wpm = 110
    /\ req.a.duration = R(10)
    /\ Len(flow_events) = 1
    /\ flow_events[1].time = R(9)
    /\ flow_events[1].msg = "Speaking a bit slow. (110 WPM)."

\* the confidence-type events of the report
confidence_events ==
    LET is_confidence(ev) == ev.type = "confidence"
    IN  SelectSeq(res.v.events, is_confidence)

\* (compound + 1) / 2 of the call
positivity_of_call == RMul(RAdd(env.compound, R(1)), Rat(1, 2))

\* C25: the confidence score is 15 when positivity > 0.9, 12 when > 0.7, 9
\* when > 0.5 and 6 otherwise (the limits 0.9, 0.7 and 0.5 fall in the lower
\* band), and a confidence-type tone event at time duration - 0.5 is emitted
\* iff the confidence score is below 12, that is, iff positivity <= 0.7.
C25_ConfidenceBands ==
    Rated =>
        LET p == positivity_of_call
            above(n) == p[1] * 10 > n * p[2]
        IN  /\ res.v.feedback.confidence = p
            /\ res.v.breakdown.confidence =
                    (IF above(9) THEN 15
                     ELSE IF above(7) THEN 12
                     ELSE IF above(5) THEN 9
                     ELSE 6)
            /\ Len(confidence_events) =
                    IF res.v.breakdown.confidence < 12 THEN 1 ELSE 0
            /\ Len(confidence_events) = IF above(7) THEN 0 ELSE 1
            /\ \A k \in 1..Len(confidence_events) :
                    confidence_events[k].time = RSub(req.a.duration, Rat(1, 2))

\* positivity exactly 0.7: the score is 9 and the tone event is there
C25_Witness ==
    /\ Rated
    /\ positivity_of_call = Rat(7, 10)
    /\ req.a.duration = R(10)
    /\ res.v.breakdown.confidence = 9
    /\ Len(confidence_events) = 1
    /\ confidence_events[1].time = Rat(19, 2)

\* C27: every event in a report returned by calculate_score has a time t with
\* 0 <= t <= duration, for every input the callers can supply (audio results
\* and text-only submissions of any word count >= 1).
C27_EventTimesInRecording ==
    (Rated /\ req.caller \in {"text", "batch", "audio"}) =>
        \A k \in 1..Len(res.v.events) :
            /\ RLe(R(0), res.v.events[k].time)
            /\ RLe(res.v.events[k].time, req.a.duration)

---------------------------------------------------------------------------
(* Properties of analyze_grammar                                           *)

Checked == phase = "done" /\ req.op = "analyze_grammar"

\* what the checker tier adds in the call: a finding per match when the tool
\* is there and its check returns
matches_of_call == IF env.grammar_tool = "ok" THEN env.matches ELSE <<>>

\* C26: analyze_grammar returns a count equal to the length of the returned
\* findings list; the list is the rule-tier findings followed by the
\* checker-tier findings, concatenated without deduplication (a defect caught
\* by both tiers appears twice and is counted twice), and every checker-tier
\* finding carries at most two replacements.
C26_GrammarFindings ==
    Checked =>
        LET rules == rule_findings(req.text)
            errors == res.v.errors
        IN  /\ res.v.count = Len(errors)
            /\ Len(errors) = Len(rules) + Len(matches_of_call)
            /\ SubSeq(errors, 1, Len(rules)) = rules
            /\ \A k \in 1..Len(matches_of_call) :
                LET f == errors[Len(rules) + k]
                    m == matches_of_call[k]
                IN  /\ f.offset = m.offset
                    /\ f.msg = m.message
                    /\ Len(f.replacements) <= 2
                    /\ f.replacements =
                            SubSeq(m.replacements, 1, Len(f.replacements))
                    /\ Len(m.replacements) >= 2 => Len(f.replacements) = 2

\* "I is" at offset 3 found by the rule tier and by the checker, whose match
\* came with three replacements: two findings at the same offset, count 2
C26_Witness ==
    /\ Checked
    /\ req.text = "um I is ok"
    /\ env.grammar_tool = "ok"
    /\ env.matches = <<Match(3)>>
    /\ res.v.count = 2
    /\ res.v.errors[1].offset = 3 /\ res.v.errors[1].category = "Grammar"
    /\ res.v.errors[2].offset = 3 /\ res.v.errors[2].category = "TYPOS"
    /\ Len(res.v.errors[2].replacements) = 2

---------------------------------------------------------------------------
(* Properties of the polling loop of process_audio                         *)

Polling == phase = "polling"
Transcribed == phase = "done" /\ req.op = "process_audio"

\* the kinds of the last poll response
LastStatusIn(words) ==
    /\ req.last_poll # None
    /\ req.last_poll[1].kind = "json"
    /\ req.last_poll[1].status # ""
    /\ Lower(req.last_poll[1].status) \in words
LastNotOk(codes) ==
    /\ req.last_poll # None
    /\ req.last_poll[1].kind = "not ok"
    /\ req.last_poll[1].status_code \in codes
LastRaised == req.last_poll # None /\ req.last_poll[1].kind = "exception"
LastUnreadable == req.last_poll # None /\ req.last_poll[1].kind = "no json"

\* the responses after which the loop waits and polls again
LastPending ==
    \/ LastNotOk(500..599)
    \/ /\ req.last_poll # None
       /\ req.last_poll[1].kind = "json"
       /\ ~LastStatusIn({"completed", "done", "succeeded", "finished",
                         "failed", "error"})

RaisedProviderError == ~res.ok /\ res.exc = "ASRProviderError"

\* what holds of the loop in every state
PollingCases ==
    /\ Transcribed =>
        /\ res.ok => LastStatusIn({"completed", "done", "succeeded", "finished"})
        /\ LastStatusIn({"failed", "error"}) => RaisedProviderError
        /\ LastNotOk((400..599) \ (500..599)) => RaisedProviderError
        /\ LastRaised => RaisedProviderError
        /\ (req.last_poll = None \/ LastPending) =>
                /\ RaisedProviderError
                /\ RLt(R(120), req.elapsed)
    /\ Polling =>
        /\ req.last_poll # None => LastPending
        /\ RLt(R(120), req.elapsed) =>
                ENABLED PollTimeout /\ ~ENABLED Poll

---------------------------------------------------------------------------
(* Properties of the /analyze endpoint                                     *)

Answered == phase = "done" /\ req.op = "analyze_submission"

\* C17: a request with neither an upload nor a non-empty text_input fails
\* with status 400 and the detail "No input provided. Upload audio or paste
\* text.", and calculate_score is not called.
C17_NoInputIs400 ==
    (Answered /\ ~Truthy(req.file) /\ ~Truthy(req.text_input)) =>
        /\ res.status = 400
        /\ res.detail = "No input provided. Upload audio or paste text."
        /\ res.calls = <<>>

\* the requests that came with an upload and have been answered
Uploaded == Answered /\ Truthy(req.file)

\* C29: for every /analyze request that uploaded an audio file, once the
\* request has finished, with a report, with a transcription failure or with
\* a scoring failure, the temporary file saved for it has been removed
\* whenever os.remove itself succeeds, and a failure to remove it never
\* changes the request's outcome.
C29_TempFileRemoved ==
    Uploaded =>
        /\ env.temp_file_path # None
        /\ env.remove_ok => env.temp_file_path[1] \notin assets
        /\ res.status = (IF ~env.asr.ok THEN 500
                         ELSE IF env.asr.v.word_count > 0 /\ env.e.embed_raise # 0 THEN 500
                         ELSE IF env.asr.v.word_count > 0 /\ env.e.sentiment_raise THEN 500
                         ELSE 200)
        /\ res = analyze_submission(req.file, req.text_input, env.asr, env.e, globals)

\* an upload whose transcription failed: the answer is 500 and the file is gone
C29_Witness ==
    /\ Uploaded
    /\ ~env.asr.ok
    /\ env.remove_ok
    /\ res.status = 500
    /\ res.calls = <<"process_audio">>
    /\ env.temp_file_path[1] \notin assets

---------------------------------------------------------------------------
(* Properties of the batch drivers                                         *)

InBatch == phase \in {"called", "done"} /\ req.op = "analyze_all"

\* whether item k of the queue was transcribed and scored without a failure
\* in the running loop: the transcription of an upload succeeded, the item
\* reached the scorer (the endpoint takes no empty text), and the scorer
\* returned a report
ScoredOk(k) ==
    LET item == session.batch_queue[k]
        b == req.behaviours[k]
        analysis == IF item.type = "audio" THEN b.asr
                    ELSE Ok(text_analysis(item.content[1]))
    IN  /\ analysis.ok
        /\ (req.driver = "ui" /\ item.type = "text") => item.content[1] # ""
        /\ calculate_score(analysis.v, b.e, globals).ok

\* the positions among the first n of the queue that were scored, in order
ScoredPositions(n) ==
    LET scored(k) == ScoredOk(k)
    IN  SelectSeq([k \in 1..n |-> k], scored)

C30_SelectionOnDashboard ==
    /\ [](session.selected_student # None =>
            /\ session.page = "dashboard"
            /\ \E i \in 1..Len(session.batch_results) :
                    session.batch_results[i] = session.selected_student[1])
    /\ [][ResetSystem =>
            /\ session'.batch_queue = <<>>
            /\ session'.batch_results = <<>>
            /\ session'.page = "upload"
            /\ session'.selected_student = None]_vars

\* the report of the second of two results is open, the first scoring more
C30_Witness ==
    /\ phase = "idle"
    /\ session.page = "dashboard"
    /\ Len(session.batch_results) = 2
    /\ session.selected_student = Some(session.batch_results[2])
    /\ session.batch_results[1].report.overall_score
            > session.batch_results[2].report.overall_score

---------------------------------------------------------------------------
(* Properties of map_errors_to_segments                                    *)

Mapped == phase = "done" /\ req.op = "map_errors_to_segments"

\* a transcription's segment list: every segment has text and start <= end,
\* and each segment starts no earlier than the one before it ends
WellFormed(segments) ==
    /\ \A i \in 1..Len(segments) :
            segments[i].text # "" /\ RLe(segments[i].start, segments[i].end)
    /\ \A i \in 1..(Len(segments) - 1) : RLe(segments[i].end, segments[i + 1].start)

\* the character range of segment i: [start_char, end_char)
start_char(segments, i) == Sum([j \in 1..(i - 1) |-> Len(segments[j].text)])
end_char(segments, i) == start_char(segments, i) + Len(segments[i].text)

\* C4: a finding at the start_char of a segment, any segment of the list, is
\* mapped to that segment's start, and a finding at its end_char - 1 to a time
\* within that segment's [start, end].
C4_RoundTrip ==
    (Mapped /\ WellFormed(req.segments)) =>
        /\ res.ok
        /\ \A i \in 1..Len(req.segments), k \in 1..Len(req.errors) :
            /\ req.errors[k].offset = start_char(req.segments, i) =>
                \E n \in 1..Len(res.v) :
                    /\ res.v[n].msg = req.errors[k].msg
                    /\ res.v[n].time = req.segments[i].start
            /\ req.errors[k].offset = end_char(req.segments, i) - 1 =>
                \E n \in 1..Len(res.v) :
                    /\ res.v[n].msg = req.errors[k].msg
                    /\ RLe(req.segments[i].start, res.v[n].time)
                    /\ RLe(res.v[n].time, req.segments[i].end)

\* whether some segment's character range, with the slack behind it, holds off
Matched(segments, off) ==
    \E i \in 1..Len(segments) :
        start_char(segments, i) <= off /\ off <= end_char(segments, i) + SLACK

\* the findings that match a range, in their order
Kept(errors, segments) ==
    LET matched(err) == Matched(segments, err.offset)
    IN  SelectSeq(errors, matched)

\* C10: for any segment list, malformed or not, and any findings with integer
\* offsets the mapper raises nothing and returns one grammar event for each
\* finding that matches a range, in the findings' order, and none for the
\* others.
C10_MapperNeverRaises ==
    Mapped =>
        /\ res.ok
        /\ Len(res.v) = Len(Kept(req.errors, req.segments))
        /\ \A n \in 1..Len(res.v) :
                /\ res.v[n].type = "grammar"
                /\ res.v[n].msg = Kept(req.errors, req.segments)[n].msg

\* a list with a segment that ends before it starts and a segment without
\* text, one finding mapped and one dropped
C10_Witness ==
    /\ Mapped
    /\ \E i \in 1..Len(req.segments) : RLt(req.segments[i].end, req.segments[i].start)
    /\ \E i \in 1..Len(req.segments) : req.segments[i].text = ""
    /\ Len(req.errors) = 2
    /\ res.ok /\ Len(res.v) = 1

\* the first segment, in list order, whose range with the slack holds off
FirstMatched(segments, off) ==
    CHOOSE i \in 1..Len(segments) :
        /\ start_char(segments, i) <= off /\ off <= end_char(segments, i) + SLACK
        /\ \A j \in 1..(i - 1) :
            ~(start_char(segments, j) <= off /\ off <= end_char(segments, j) + SLACK)

\* clamp(local_offset / char_span, 0, 1), 0 for a segment without characters
Clamped(local_offset, char_span) ==
    IF char_span = 0 \/ local_offset <= 0 THEN R(0)
    ELSE IF local_offset >= char_span THEN R(1)
    ELSE Rat(local_offset, char_span)

\* C20: the mapper gives at most one grammar event per finding, and one iff
\* some segment's character range with the slack (start_char <= offset <=
\* end_char + 5) holds the offset; the event's time is start + clamp(
\* local_offset / char_span, 0, 1) * (end - start) of the matched segment, the
\* first in list order, so it is within [start, end] whenever start <= end.
C20_MappedTime ==
    Mapped =>
        /\ res.ok
        /\ Len(res.v) = Len(Kept(req.errors, req.segments))
        /\ \A n \in 1..Len(res.v) :
            LET off == Kept(req.errors, req.segments)[n].offset
                i == FirstMatched(req.segments, off)
                seg == req.segments[i]
                r == Clamped(off - start_char(req.segments, i), Len(seg.text))
            IN  /\ res.v[n].time = RAdd(seg.start, RMul(r, RSub(seg.end, seg.start)))
                /\ res.v[n].segment_text = seg.text
                /\ RLe(seg.start, seg.end) =>
                        RLe(seg.start, res.v[n].time) /\ RLe(res.v[n].time, seg.end)

\* a finding in the slack behind the only segment, mapped to the segment's
\* end, a finding inside it, mapped to the middle, and none dropped
C20_Witness ==
    /\ Mapped
    /\ req.segments = <<Seg(R(0), R(2), "um")>>
    /\ Len(req.errors) = 2
    /\ req.errors[1].offset = 4
    /\ req.errors[2].offset = 1
    /\ res.ok /\ Len(res.v) = 2
    /\ res.v[1].time = R(2)
    /\ res.v[2].time = R(1)

=============================================================================
